---- MODULE Spec2Model ----
(***************************************************************************)
(* A model of stealth_tester.py: the StealthTester object (its filters,    *)
(* its result list, its target lists), the fifteen probes, run_all_tests,  *)
(* generate_report and save_detailed_report.                               *)
(*                                                                         *)
(* A text (a Python str) is a sequence of Unicode code points, so that     *)
(* lower(), "in", strip(), split(), count() and repr() are computed as     *)
(* Python 3.11 computes them; a float is a number in binary, and every     *)
(* operation on floats rounds as the IEEE 754 doubles of Python do.        *)
(* The platform (psutil, win32gui, win32api, subprocess, mss) is a record  *)
(* that fixes the outcome of every call a probe can make: a value, or the  *)
(* name of the exception the call raises.  TestResult.timestamp (the wall  *)
(* clock) is not modelled.                                                 *)
(***************************************************************************)
EXTENDS Integers, Sequences, FiniteSets, TLC

VARIABLES
    process_name,      \* self.process_name (lower-cased argv[1])
    window_title,      \* self.window_title (lower-cased argv[2] or "")
    results,           \* self.results
    target_processes,  \* self.target_processes
    target_windows,    \* self.target_windows
    platform,          \* the operating system as the probes see it
    pc,                \* the statement of run_all_tests / main to execute next
    raised,            \* the exception that left the last call ("" when none)
    calls,             \* number of direct calls of a probe or of add_result by an API client
    console,           \* what the last generate_report printed (NoOutput before)
    report,            \* the last report_data that save_detailed_report wrote
    attached,          \* pids a debugger is still attached to
    handles,           \* process handles opened and not closed
    cpu_round,         \* test_cpu_usage: the round to sample next (0: no call in progress)
    cpu_samples        \* test_cpu_usage: its local cpu_samples

vars == <<process_name, window_title, results, target_processes, target_windows,
          platform, pc, raised, calls, console, report, attached, handles,
          cpu_round, cpu_samples>>

(***************************************************************************)
(* Bounds of the model.                                                    *)
(***************************************************************************)
MaxProcs == 3
MaxWins == 2
MaxCalls == 2
MaxOverlap == 1
MaxResults == 3
MaxTotal == 20

(***************************************************************************)
(* Text.  A character is its Unicode code point (0 .. 1114111) and a text, *)
(* a Python str, is a sequence of characters.                              *)
(***************************************************************************)
\* the printable ASCII characters from U+0020 to U+005F and from U+0061 to U+007E, in
\* order (U+0060, the grave accent, occurs in no string literal of the program)
AsciiToUnderscore == " !\"#$%&'()*+,-./0123456789:;<=>?@ABCDEFGHIJKLMNOPQRSTUVWXYZ[\\]^_"
AsciiFromSmallA == "abcdefghijklmnopqrstuvwxyz{|}~"

\* the code point of each of these characters, given as a string of one character
Ord ==
    [ch \in {SubSeq(AsciiToUnderscore, i, i) : i \in 1..Len(AsciiToUnderscore)}
             \cup {SubSeq(AsciiFromSmallA, i, i) : i \in 1..Len(AsciiFromSmallA)} |->
        IF \E i \in 1..Len(AsciiToUnderscore) : SubSeq(AsciiToUnderscore, i, i) = ch
        THEN 31 + CHOOSE i \in 1..Len(AsciiToUnderscore) : SubSeq(AsciiToUnderscore, i, i) = ch
        ELSE 96 + CHOOSE i \in 1..Len(AsciiFromSmallA) : SubSeq(AsciiFromSmallA, i, i) = ch]

\* the text a string literal of the program denotes
Text(str) == [i \in 1..Len(str) |-> Ord[SubSeq(str, i, i)]]

Max(S) == CHOOSE x \in S : \A y \in S : y <= x
Min(S) == CHOOSE x \in S : \A y \in S : x <= y

InRanges(c, ranges) == \E r \in ranges : r[1] <= c /\ c <= r[2]

\* the characters str.strip() removes and for which str.isspace() holds, as ranges
\* <<first, last>> of code points
WhiteSpaceRanges ==
    { <<9, 13>>, <<28, 32>>, <<133, 133>>, <<160, 160>>, <<5760, 5760>>, <<8192, 8202>>,
      <<8232, 8233>>, <<8239, 8239>>, <<8287, 8287>>, <<12288, 12288>> }

\* the characters from U+0080 on for which str.isprintable() is false (Unicode 14.0.0,
\* the version of Python 3.11), as ranges <<first, last>>
NonPrintableRanges ==
    { <<128, 160>>, <<173, 173>>, <<888, 889>>, <<896, 899>>, <<907, 907>>, <<909, 909>>,
      <<930, 930>>, <<1328, 1328>>, <<1367, 1368>>, <<1419, 1420>>, <<1424, 1424>>, <<1480, 1487>>,
      <<1515, 1518>>, <<1525, 1541>>, <<1564, 1564>>, <<1757, 1757>>, <<1806, 1807>>, <<1867, 1868>>,
      <<1970, 1983>>, <<2043, 2044>>, <<2094, 2095>>, <<2111, 2111>>, <<2140, 2141>>, <<2143, 2143>>,
      <<2155, 2159>>, <<2191, 2199>>, <<2274, 2274>>, <<2436, 2436>>, <<2445, 2446>>, <<2449, 2450>>,
      <<2473, 2473>>, <<2481, 2481>>, <<2483, 2485>>, <<2490, 2491>>, <<2501, 2502>>, <<2505, 2506>>,
      <<2511, 2518>>, <<2520, 2523>>, <<2526, 2526>>, <<2532, 2533>>, <<2559, 2560>>, <<2564, 2564>>,
      <<2571, 2574>>, <<2577, 2578>>, <<2601, 2601>>, <<2609, 2609>>, <<2612, 2612>>, <<2615, 2615>>,
      <<2618, 2619>>, <<2621, 2621>>, <<2627, 2630>>, <<2633, 2634>>, <<2638, 2640>>, <<2642, 2648>>,
      <<2653, 2653>>, <<2655, 2661>>, <<2679, 2688>>, <<2692, 2692>>, <<2702, 2702>>, <<2706, 2706>>,
      <<2729, 2729>>, <<2737, 2737>>, <<2740, 2740>>, <<2746, 2747>>, <<2758, 2758>>, <<2762, 2762>>,
      <<2766, 2767>>, <<2769, 2783>>, <<2788, 2789>>, <<2802, 2808>>, <<2816, 2816>>, <<2820, 2820>>,
      <<2829, 2830>>, <<2833, 2834>>, <<2857, 2857>>, <<2865, 2865>>, <<2868, 2868>>, <<2874, 2875>>,
      <<2885, 2886>>, <<2889, 2890>>, <<2894, 2900>>, <<2904, 2907>>, <<2910, 2910>>, <<2916, 2917>>,
      <<2936, 2945>>, <<2948, 2948>>, <<2955, 2957>>, <<2961, 2961>>, <<2966, 2968>>, <<2971, 2971>>,
      <<2973, 2973>>, <<2976, 2978>>, <<2981, 2983>>, <<2987, 2989>>, <<3002, 3005>>, <<3011, 3013>>,
      <<3017, 3017>>, <<3022, 3023>>, <<3025, 3030>>, <<3032, 3045>>, <<3067, 3071>>, <<3085, 3085>>,
      <<3089, 3089>>, <<3113, 3113>>, <<3130, 3131>>, <<3141, 3141>>, <<3145, 3145>>, <<3150, 3156>>,
      <<3159, 3159>>, <<3163, 3164>>, <<3166, 3167>>, <<3172, 3173>>, <<3184, 3190>>, <<3213, 3213>>,
      <<3217, 3217>>, <<3241, 3241>>, <<3252, 3252>>, <<3258, 3259>>, <<3269, 3269>>, <<3273, 3273>>,
      <<3278, 3284>>, <<3287, 3292>>, <<3295, 3295>>, <<3300, 3301>>, <<3312, 3312>>, <<3315, 3327>>,
      <<3341, 3341>>, <<3345, 3345>>, <<3397, 3397>>, <<3401, 3401>>, <<3408, 3411>>, <<3428, 3429>>,
      <<3456, 3456>>, <<3460, 3460>>, <<3479, 3481>>, <<3506, 3506>>, <<3516, 3516>>, <<3518, 3519>>,
      <<3527, 3529>>, <<3531, 3534>>, <<3541, 3541>>, <<3543, 3543>>, <<3552, 3557>>, <<3568, 3569>>,
      <<3573, 3584>>, <<3643, 3646>>, <<3676, 3712>>, <<3715, 3715>>, <<3717, 3717>>, <<3723, 3723>>,
      <<3748, 3748>>, <<3750, 3750>>, <<3774, 3775>>, <<3781, 3781>>, <<3783, 3783>>, <<3790, 3791>>,
      <<3802, 3803>>, <<3808, 3839>>, <<3912, 3912>>, <<3949, 3952>>, <<3992, 3992>>, <<4029, 4029>>,
      <<4045, 4045>>, <<4059, 4095>>, <<4294, 4294>>, <<4296, 4300>>, <<4302, 4303>>, <<4681, 4681>>,
      <<4686, 4687>>, <<4695, 4695>>, <<4697, 4697>>, <<4702, 4703>>, <<4745, 4745>>, <<4750, 4751>>,
      <<4785, 4785>>, <<4790, 4791>>, <<4799, 4799>>, <<4801, 4801>>, <<4806, 4807>>, <<4823, 4823>>,
      <<4881, 4881>>, <<4886, 4887>>, <<4955, 4956>>, <<4989, 4991>>, <<5018, 5023>>, <<5110, 5111>>,
      <<5118, 5119>>, <<5760, 5760>>, <<5789, 5791>>, <<5881, 5887>>, <<5910, 5918>>, <<5943, 5951>>,
      <<5972, 5983>>, <<5997, 5997>>, <<6001, 6001>>, <<6004, 6015>>, <<6110, 6111>>, <<6122, 6127>>,
      <<6138, 6143>>, <<6158, 6158>>, <<6170, 6175>>, <<6265, 6271>>, <<6315, 6319>>, <<6390, 6399>>,
      <<6431, 6431>>, <<6444, 6447>>, <<6460, 6463>>, <<6465, 6467>>, <<6510, 6511>>, <<6517, 6527>>,
      <<6572, 6575>>, <<6602, 6607>>, <<6619, 6621>>, <<6684, 6685>>, <<6751, 6751>>, <<6781, 6782>>,
      <<6794, 6799>>, <<6810, 6815>>, <<6830, 6831>>, <<6863, 6911>>, <<6989, 6991>>, <<7039, 7039>>,
      <<7156, 7163>>, <<7224, 7226>>, <<7242, 7244>>, <<7305, 7311>>, <<7355, 7356>>, <<7368, 7375>>,
      <<7419, 7423>>, <<7958, 7959>>, <<7966, 7967>>, <<8006, 8007>>, <<8014, 8015>>, <<8024, 8024>>,
      <<8026, 8026>>, <<8028, 8028>>, <<8030, 8030>>, <<8062, 8063>>, <<8117, 8117>>, <<8133, 8133>>,
      <<8148, 8149>>, <<8156, 8156>>, <<8176, 8177>>, <<8181, 8181>>, <<8191, 8207>>, <<8232, 8239>>,
      <<8287, 8303>>, <<8306, 8307>>, <<8335, 8335>>, <<8349, 8351>>, <<8385, 8399>>, <<8433, 8447>>,
      <<8588, 8591>>, <<9255, 9279>>, <<9291, 9311>>, <<11124, 11125>>, <<11158, 11158>>, <<11508, 11512>>,
      <<11558, 11558>>, <<11560, 11564>>, <<11566, 11567>>, <<11624, 11630>>, <<11633, 11646>>, <<11671, 11679>>,
      <<11687, 11687>>, <<11695, 11695>>, <<11703, 11703>>, <<11711, 11711>>, <<11719, 11719>>, <<11727, 11727>>,
      <<11735, 11735>>, <<11743, 11743>>, <<11870, 11903>>, <<11930, 11930>>, <<12020, 12031>>, <<12246, 12271>>,
      <<12284, 12288>>, <<12352, 12352>>, <<12439, 12440>>, <<12544, 12548>>, <<12592, 12592>>, <<12687, 12687>>,
      <<12772, 12783>>, <<12831, 12831>>, <<42125, 42127>>, <<42183, 42191>>, <<42540, 42559>>, <<42744, 42751>>,
      <<42955, 42959>>, <<42962, 42962>>, <<42964, 42964>>, <<42970, 42993>>, <<43053, 43055>>, <<43066, 43071>>,
      <<43128, 43135>>, <<43206, 43213>>, <<43226, 43231>>, <<43348, 43358>>, <<43389, 43391>>, <<43470, 43470>>,
      <<43482, 43485>>, <<43519, 43519>>, <<43575, 43583>>, <<43598, 43599>>, <<43610, 43611>>, <<43715, 43738>>,
      <<43767, 43776>>, <<43783, 43784>>, <<43791, 43792>>, <<43799, 43807>>, <<43815, 43815>>, <<43823, 43823>>,
      <<43884, 43887>>, <<44014, 44015>>, <<44026, 44031>>, <<55204, 55215>>, <<55239, 55242>>, <<55292, 63743>>,
      <<64110, 64111>>, <<64218, 64255>>, <<64263, 64274>>, <<64280, 64284>>, <<64311, 64311>>, <<64317, 64317>>,
      <<64319, 64319>>, <<64322, 64322>>, <<64325, 64325>>, <<64451, 64466>>, <<64912, 64913>>, <<64968, 64974>>,
      <<64976, 65007>>, <<65050, 65055>>, <<65107, 65107>>, <<65127, 65127>>, <<65132, 65135>>, <<65141, 65141>>,
      <<65277, 65280>>, <<65471, 65473>>, <<65480, 65481>>, <<65488, 65489>>, <<65496, 65497>>, <<65501, 65503>>,
      <<65511, 65511>>, <<65519, 65531>>, <<65534, 65535>>, <<65548, 65548>>, <<65575, 65575>>, <<65595, 65595>>,
      <<65598, 65598>>, <<65614, 65615>>, <<65630, 65663>>, <<65787, 65791>>, <<65795, 65798>>, <<65844, 65846>>,
      <<65935, 65935>>, <<65949, 65951>>, <<65953, 65999>>, <<66046, 66175>>, <<66205, 66207>>, <<66257, 66271>>,
      <<66300, 66303>>, <<66340, 66348>>, <<66379, 66383>>, <<66427, 66431>>, <<66462, 66462>>, <<66500, 66503>>,
      <<66518, 66559>>, <<66718, 66719>>, <<66730, 66735>>, <<66772, 66775>>, <<66812, 66815>>, <<66856, 66863>>,
      <<66916, 66926>>, <<66939, 66939>>, <<66955, 66955>>, <<66963, 66963>>, <<66966, 66966>>, <<66978, 66978>>,
      <<66994, 66994>>, <<67002, 67002>>, <<67005, 67071>>, <<67383, 67391>>, <<67414, 67423>>, <<67432, 67455>>,
      <<67462, 67462>>, <<67505, 67505>>, <<67515, 67583>>, <<67590, 67591>>, <<67593, 67593>>, <<67638, 67638>>,
      <<67641, 67643>>, <<67645, 67646>>, <<67670, 67670>>, <<67743, 67750>>, <<67760, 67807>>, <<67827, 67827>>,
      <<67830, 67834>>, <<67868, 67870>>, <<67898, 67902>>, <<67904, 67967>>, <<68024, 68027>>, <<68048, 68049>>,
      <<68100, 68100>>, <<68103, 68107>>, <<68116, 68116>>, <<68120, 68120>>, <<68150, 68151>>, <<68155, 68158>>,
      <<68169, 68175>>, <<68185, 68191>>, <<68256, 68287>>, <<68327, 68330>>, <<68343, 68351>>, <<68406, 68408>>,
      <<68438, 68439>>, <<68467, 68471>>, <<68498, 68504>>, <<68509, 68520>>, <<68528, 68607>>, <<68681, 68735>>,
      <<68787, 68799>>, <<68851, 68857>>, <<68904, 68911>>, <<68922, 69215>>, <<69247, 69247>>, <<69290, 69290>>,
      <<69294, 69295>>, <<69298, 69375>>, <<69416, 69423>>, <<69466, 69487>>, <<69514, 69551>>, <<69580, 69599>>,
      <<69623, 69631>>, <<69710, 69713>>, <<69750, 69758>>, <<69821, 69821>>, <<69827, 69839>>, <<69865, 69871>>,
      <<69882, 69887>>, <<69941, 69941>>, <<69960, 69967>>, <<70007, 70015>>, <<70112, 70112>>, <<70133, 70143>>,
      <<70162, 70162>>, <<70207, 70271>>, <<70279, 70279>>, <<70281, 70281>>, <<70286, 70286>>, <<70302, 70302>>,
      <<70314, 70319>>, <<70379, 70383>>, <<70394, 70399>>, <<70404, 70404>>, <<70413, 70414>>, <<70417, 70418>>,
      <<70441, 70441>>, <<70449, 70449>>, <<70452, 70452>>, <<70458, 70458>>, <<70469, 70470>>, <<70473, 70474>>,
      <<70478, 70479>>, <<70481, 70486>>, <<70488, 70492>>, <<70500, 70501>>, <<70509, 70511>>, <<70517, 70655>>,
      <<70748, 70748>>, <<70754, 70783>>, <<70856, 70863>>, <<70874, 71039>>, <<71094, 71095>>, <<71134, 71167>>,
      <<71237, 71247>>, <<71258, 71263>>, <<71277, 71295>>, <<71354, 71359>>, <<71370, 71423>>, <<71451, 71452>>,
      <<71468, 71471>>, <<71495, 71679>>, <<71740, 71839>>, <<71923, 71934>>, <<71943, 71944>>, <<71946, 71947>>,
      <<71956, 71956>>, <<71959, 71959>>, <<71990, 71990>>, <<71993, 71994>>, <<72007, 72015>>, <<72026, 72095>>,
      <<72104, 72105>>, <<72152, 72153>>, <<72165, 72191>>, <<72264, 72271>>, <<72355, 72367>>, <<72441, 72703>>,
      <<72713, 72713>>, <<72759, 72759>>, <<72774, 72783>>, <<72813, 72815>>, <<72848, 72849>>, <<72872, 72872>>,
      <<72887, 72959>>, <<72967, 72967>>, <<72970, 72970>>, <<73015, 73017>>, <<73019, 73019>>, <<73022, 73022>>,
      <<73032, 73039>>, <<73050, 73055>>, <<73062, 73062>>, <<73065, 73065>>, <<73103, 73103>>, <<73106, 73106>>,
      <<73113, 73119>>, <<73130, 73439>>, <<73465, 73647>>, <<73649, 73663>>, <<73714, 73726>>, <<74650, 74751>>,
      <<74863, 74863>>, <<74869, 74879>>, <<75076, 77711>>, <<77811, 77823>>, <<78895, 82943>>, <<83527, 92159>>,
      <<92729, 92735>>, <<92767, 92767>>, <<92778, 92781>>, <<92863, 92863>>, <<92874, 92879>>, <<92910, 92911>>,
      <<92918, 92927>>, <<92998, 93007>>, <<93018, 93018>>, <<93026, 93026>>, <<93048, 93052>>, <<93072, 93759>>,
      <<93851, 93951>>, <<94027, 94030>>, <<94088, 94094>>, <<94112, 94175>>, <<94181, 94191>>, <<94194, 94207>>,
      <<100344, 100351>>, <<101590, 101631>>, <<101641, 110575>>, <<110580, 110580>>, <<110588, 110588>>, <<110591, 110591>>,
      <<110883, 110927>>, <<110931, 110947>>, <<110952, 110959>>, <<111356, 113663>>, <<113771, 113775>>, <<113789, 113791>>,
      <<113801, 113807>>, <<113818, 113819>>, <<113824, 118527>>, <<118574, 118575>>, <<118599, 118607>>, <<118724, 118783>>,
      <<119030, 119039>>, <<119079, 119080>>, <<119155, 119162>>, <<119275, 119295>>, <<119366, 119519>>, <<119540, 119551>>,
      <<119639, 119647>>, <<119673, 119807>>, <<119893, 119893>>, <<119965, 119965>>, <<119968, 119969>>, <<119971, 119972>>,
      <<119975, 119976>>, <<119981, 119981>>, <<119994, 119994>>, <<119996, 119996>>, <<120004, 120004>>, <<120070, 120070>>,
      <<120075, 120076>>, <<120085, 120085>>, <<120093, 120093>>, <<120122, 120122>>, <<120127, 120127>>, <<120133, 120133>>,
      <<120135, 120137>>, <<120145, 120145>>, <<120486, 120487>>, <<120780, 120781>>, <<121484, 121498>>, <<121504, 121504>>,
      <<121520, 122623>>, <<122655, 122879>>, <<122887, 122887>>, <<122905, 122906>>, <<122914, 122914>>, <<122917, 122917>>,
      <<122923, 123135>>, <<123181, 123183>>, <<123198, 123199>>, <<123210, 123213>>, <<123216, 123535>>, <<123567, 123583>>,
      <<123642, 123646>>, <<123648, 124895>>, <<124903, 124903>>, <<124908, 124908>>, <<124911, 124911>>, <<124927, 124927>>,
      <<125125, 125126>>, <<125143, 125183>>, <<125260, 125263>>, <<125274, 125277>>, <<125280, 126064>>, <<126133, 126208>>,
      <<126270, 126463>>, <<126468, 126468>>, <<126496, 126496>>, <<126499, 126499>>, <<126501, 126502>>, <<126504, 126504>>,
      <<126515, 126515>>, <<126520, 126520>>, <<126522, 126522>>, <<126524, 126529>>, <<126531, 126534>>, <<126536, 126536>>,
      <<126538, 126538>>, <<126540, 126540>>, <<126544, 126544>>, <<126547, 126547>>, <<126549, 126550>>, <<126552, 126552>>,
      <<126554, 126554>>, <<126556, 126556>>, <<126558, 126558>>, <<126560, 126560>>, <<126563, 126563>>, <<126565, 126566>>,
      <<126571, 126571>>, <<126579, 126579>>, <<126584, 126584>>, <<126589, 126589>>, <<126591, 126591>>, <<126602, 126602>>,
      <<126620, 126624>>, <<126628, 126628>>, <<126634, 126634>>, <<126652, 126703>>, <<126706, 126975>>, <<127020, 127023>>,
      <<127124, 127135>>, <<127151, 127152>>, <<127168, 127168>>, <<127184, 127184>>, <<127222, 127231>>, <<127406, 127461>>,
      <<127491, 127503>>, <<127548, 127551>>, <<127561, 127567>>, <<127570, 127583>>, <<127590, 127743>>, <<128728, 128732>>,
      <<128749, 128751>>, <<128765, 128767>>, <<128884, 128895>>, <<128985, 128991>>, <<129004, 129007>>, <<129009, 129023>>,
      <<129036, 129039>>, <<129096, 129103>>, <<129114, 129119>>, <<129160, 129167>>, <<129198, 129199>>, <<129202, 129279>>,
      <<129620, 129631>>, <<129646, 129647>>, <<129653, 129655>>, <<129661, 129663>>, <<129671, 129679>>, <<129709, 129711>>,
      <<129723, 129727>>, <<129734, 129743>>, <<129754, 129759>>, <<129768, 129775>>, <<129783, 129791>>, <<129939, 129939>>,
      <<129995, 130031>>, <<130042, 131071>>, <<173792, 173823>>, <<177977, 177983>>, <<178206, 178207>>, <<183970, 183983>>,
      <<191457, 194559>>, <<195102, 196607>>, <<201547, 917759>>, <<918000, 1114111>> }

\* the characters str.lower() skips when it looks for the cased letter before and
\* after a capital sigma (Case_Ignorable), as ranges <<first, last>>
CaseIgnorableRanges ==
    { <<39, 39>>, <<46, 46>>, <<58, 58>>, <<94, 94>>, <<96, 96>>, <<168, 168>>,
      <<173, 173>>, <<175, 175>>, <<180, 180>>, <<183, 184>>, <<688, 879>>, <<884, 885>>,
      <<890, 890>>, <<900, 901>>, <<903, 903>>, <<1155, 1161>>, <<1369, 1369>>, <<1375, 1375>>,
      <<1425, 1469>>, <<1471, 1471>>, <<1473, 1474>>, <<1476, 1477>>, <<1479, 1479>>, <<1524, 1524>>,
      <<1536, 1541>>, <<1552, 1562>>, <<1564, 1564>>, <<1600, 1600>>, <<1611, 1631>>, <<1648, 1648>>,
      <<1750, 1757>>, <<1759, 1768>>, <<1770, 1773>>, <<1807, 1807>>, <<1809, 1809>>, <<1840, 1866>>,
      <<1958, 1968>>, <<2027, 2037>>, <<2042, 2042>>, <<2045, 2045>>, <<2070, 2093>>, <<2137, 2139>>,
      <<2184, 2184>>, <<2192, 2193>>, <<2200, 2207>>, <<2249, 2306>>, <<2362, 2362>>, <<2364, 2364>>,
      <<2369, 2376>>, <<2381, 2381>>, <<2385, 2391>>, <<2402, 2403>>, <<2417, 2417>>, <<2433, 2433>>,
      <<2492, 2492>>, <<2497, 2500>>, <<2509, 2509>>, <<2530, 2531>>, <<2558, 2558>>, <<2561, 2562>>,
      <<2620, 2620>>, <<2625, 2626>>, <<2631, 2632>>, <<2635, 2637>>, <<2641, 2641>>, <<2672, 2673>>,
      <<2677, 2677>>, <<2689, 2690>>, <<2748, 2748>>, <<2753, 2757>>, <<2759, 2760>>, <<2765, 2765>>,
      <<2786, 2787>>, <<2810, 2815>>, <<2817, 2817>>, <<2876, 2876>>, <<2879, 2879>>, <<2881, 2884>>,
      <<2893, 2893>>, <<2901, 2902>>, <<2914, 2915>>, <<2946, 2946>>, <<3008, 3008>>, <<3021, 3021>>,
      <<3072, 3072>>, <<3076, 3076>>, <<3132, 3132>>, <<3134, 3136>>, <<3142, 3144>>, <<3146, 3149>>,
      <<3157, 3158>>, <<3170, 3171>>, <<3201, 3201>>, <<3260, 3260>>, <<3263, 3263>>, <<3270, 3270>>,
      <<3276, 3277>>, <<3298, 3299>>, <<3328, 3329>>, <<3387, 3388>>, <<3393, 3396>>, <<3405, 3405>>,
      <<3426, 3427>>, <<3457, 3457>>, <<3530, 3530>>, <<3538, 3540>>, <<3542, 3542>>, <<3633, 3633>>,
      <<3636, 3642>>, <<3654, 3662>>, <<3761, 3761>>, <<3764, 3772>>, <<3782, 3782>>, <<3784, 3789>>,
      <<3864, 3865>>, <<3893, 3893>>, <<3895, 3895>>, <<3897, 3897>>, <<3953, 3966>>, <<3968, 3972>>,
      <<3974, 3975>>, <<3981, 3991>>, <<3993, 4028>>, <<4038, 4038>>, <<4141, 4144>>, <<4146, 4151>>,
      <<4153, 4154>>, <<4157, 4158>>, <<4184, 4185>>, <<4190, 4192>>, <<4209, 4212>>, <<4226, 4226>>,
      <<4229, 4230>>, <<4237, 4237>>, <<4253, 4253>>, <<4348, 4348>>, <<4957, 4959>>, <<5906, 5908>>,
      <<5938, 5939>>, <<5970, 5971>>, <<6002, 6003>>, <<6068, 6069>>, <<6071, 6077>>, <<6086, 6086>>,
      <<6089, 6099>>, <<6103, 6103>>, <<6109, 6109>>, <<6155, 6159>>, <<6211, 6211>>, <<6277, 6278>>,
      <<6313, 6313>>, <<6432, 6434>>, <<6439, 6440>>, <<6450, 6450>>, <<6457, 6459>>, <<6679, 6680>>,
      <<6683, 6683>>, <<6742, 6742>>, <<6744, 6750>>, <<6752, 6752>>, <<6754, 6754>>, <<6757, 6764>>,
      <<6771, 6780>>, <<6783, 6783>>, <<6823, 6823>>, <<6832, 6862>>, <<6912, 6915>>, <<6964, 6964>>,
      <<6966, 6970>>, <<6972, 6972>>, <<6978, 6978>>, <<7019, 7027>>, <<7040, 7041>>, <<7074, 7077>>,
      <<7080, 7081>>, <<7083, 7085>>, <<7142, 7142>>, <<7144, 7145>>, <<7149, 7149>>, <<7151, 7153>>,
      <<7212, 7219>>, <<7222, 7223>>, <<7288, 7293>>, <<7376, 7378>>, <<7380, 7392>>, <<7394, 7400>>,
      <<7405, 7405>>, <<7412, 7412>>, <<7416, 7417>>, <<7468, 7530>>, <<7544, 7544>>, <<7579, 7679>>,
      <<8125, 8125>>, <<8127, 8129>>, <<8141, 8143>>, <<8157, 8159>>, <<8173, 8175>>, <<8189, 8190>>,
      <<8203, 8207>>, <<8216, 8217>>, <<8228, 8228>>, <<8231, 8231>>, <<8234, 8238>>, <<8288, 8292>>,
      <<8294, 8303>>, <<8305, 8305>>, <<8319, 8319>>, <<8336, 8348>>, <<8400, 8432>>, <<11388, 11389>>,
      <<11503, 11505>>, <<11631, 11631>>, <<11647, 11647>>, <<11744, 11775>>, <<11823, 11823>>, <<12293, 12293>>,
      <<12330, 12333>>, <<12337, 12341>>, <<12347, 12347>>, <<12441, 12446>>, <<12540, 12542>>, <<40981, 40981>>,
      <<42232, 42237>>, <<42508, 42508>>, <<42607, 42610>>, <<42612, 42621>>, <<42623, 42623>>, <<42652, 42655>>,
      <<42736, 42737>>, <<42752, 42785>>, <<42864, 42864>>, <<42888, 42890>>, <<42994, 42996>>, <<43000, 43001>>,
      <<43010, 43010>>, <<43014, 43014>>, <<43019, 43019>>, <<43045, 43046>>, <<43052, 43052>>, <<43204, 43205>>,
      <<43232, 43249>>, <<43263, 43263>>, <<43302, 43309>>, <<43335, 43345>>, <<43392, 43394>>, <<43443, 43443>>,
      <<43446, 43449>>, <<43452, 43453>>, <<43471, 43471>>, <<43493, 43494>>, <<43561, 43566>>, <<43569, 43570>>,
      <<43573, 43574>>, <<43587, 43587>>, <<43596, 43596>>, <<43632, 43632>>, <<43644, 43644>>, <<43696, 43696>>,
      <<43698, 43700>>, <<43703, 43704>>, <<43710, 43711>>, <<43713, 43713>>, <<43741, 43741>>, <<43756, 43757>>,
      <<43763, 43764>>, <<43766, 43766>>, <<43867, 43871>>, <<43881, 43883>>, <<44005, 44005>>, <<44008, 44008>>,
      <<44013, 44013>>, <<64286, 64286>>, <<64434, 64450>>, <<65024, 65039>>, <<65043, 65043>>, <<65056, 65071>>,
      <<65106, 65106>>, <<65109, 65109>>, <<65279, 65279>>, <<65287, 65287>>, <<65294, 65294>>, <<65306, 65306>>,
      <<65342, 65342>>, <<65344, 65344>>, <<65392, 65392>>, <<65438, 65439>>, <<65507, 65507>>, <<65529, 65531>>,
      <<66045, 66045>>, <<66272, 66272>>, <<66422, 66426>>, <<67456, 67461>>, <<67463, 67504>>, <<67506, 67514>>,
      <<68097, 68099>>, <<68101, 68102>>, <<68108, 68111>>, <<68152, 68154>>, <<68159, 68159>>, <<68325, 68326>>,
      <<68900, 68903>>, <<69291, 69292>>, <<69446, 69456>>, <<69506, 69509>>, <<69633, 69633>>, <<69688, 69702>>,
      <<69744, 69744>>, <<69747, 69748>>, <<69759, 69761>>, <<69811, 69814>>, <<69817, 69818>>, <<69821, 69821>>,
      <<69826, 69826>>, <<69837, 69837>>, <<69888, 69890>>, <<69927, 69931>>, <<69933, 69940>>, <<70003, 70003>>,
      <<70016, 70017>>, <<70070, 70078>>, <<70089, 70092>>, <<70095, 70095>>, <<70191, 70193>>, <<70196, 70196>>,
      <<70198, 70199>>, <<70206, 70206>>, <<70367, 70367>>, <<70371, 70378>>, <<70400, 70401>>, <<70459, 70460>>,
      <<70464, 70464>>, <<70502, 70508>>, <<70512, 70516>>, <<70712, 70719>>, <<70722, 70724>>, <<70726, 70726>>,
      <<70750, 70750>>, <<70835, 70840>>, <<70842, 70842>>, <<70847, 70848>>, <<70850, 70851>>, <<71090, 71093>>,
      <<71100, 71101>>, <<71103, 71104>>, <<71132, 71133>>, <<71219, 71226>>, <<71229, 71229>>, <<71231, 71232>>,
      <<71339, 71339>>, <<71341, 71341>>, <<71344, 71349>>, <<71351, 71351>>, <<71453, 71455>>, <<71458, 71461>>,
      <<71463, 71467>>, <<71727, 71735>>, <<71737, 71738>>, <<71995, 71996>>, <<71998, 71998>>, <<72003, 72003>>,
      <<72148, 72151>>, <<72154, 72155>>, <<72160, 72160>>, <<72193, 72202>>, <<72243, 72248>>, <<72251, 72254>>,
      <<72263, 72263>>, <<72273, 72278>>, <<72281, 72283>>, <<72330, 72342>>, <<72344, 72345>>, <<72752, 72758>>,
      <<72760, 72765>>, <<72767, 72767>>, <<72850, 72871>>, <<72874, 72880>>, <<72882, 72883>>, <<72885, 72886>>,
      <<73009, 73014>>, <<73018, 73018>>, <<73020, 73021>>, <<73023, 73029>>, <<73031, 73031>>, <<73104, 73105>>,
      <<73109, 73109>>, <<73111, 73111>>, <<73459, 73460>>, <<78896, 78904>>, <<92912, 92916>>, <<92976, 92982>>,
      <<92992, 92995>>, <<94031, 94031>>, <<94095, 94111>>, <<94176, 94177>>, <<94179, 94180>>, <<110576, 110579>>,
      <<110581, 110587>>, <<110589, 110590>>, <<113821, 113822>>, <<113824, 113827>>, <<118528, 118573>>, <<118576, 118598>>,
      <<119143, 119145>>, <<119155, 119170>>, <<119173, 119179>>, <<119210, 119213>>, <<119362, 119364>>, <<121344, 121398>>,
      <<121403, 121452>>, <<121461, 121461>>, <<121476, 121476>>, <<121499, 121503>>, <<121505, 121519>>, <<122880, 122886>>,
      <<122888, 122904>>, <<122907, 122913>>, <<122915, 122916>>, <<122918, 122922>>, <<123184, 123197>>, <<123566, 123566>>,
      <<123628, 123631>>, <<125136, 125142>>, <<125252, 125259>>, <<127995, 127999>>, <<917505, 917505>>, <<917536, 917631>>,
      <<917760, 917999>> }

\* the cased letters among the characters that are not case-ignorable, as ranges
\* <<first, last>>
CasedRanges ==
    { <<65, 90>>, <<97, 122>>, <<170, 170>>, <<181, 181>>, <<186, 186>>, <<192, 214>>,
      <<216, 246>>, <<248, 442>>, <<444, 447>>, <<452, 659>>, <<661, 687>>, <<880, 883>>,
      <<886, 887>>, <<891, 893>>, <<895, 895>>, <<902, 902>>, <<904, 906>>, <<908, 908>>,
      <<910, 929>>, <<931, 1013>>, <<1015, 1153>>, <<1162, 1327>>, <<1329, 1366>>, <<1376, 1416>>,
      <<4256, 4293>>, <<4295, 4295>>, <<4301, 4301>>, <<4304, 4346>>, <<4349, 4351>>, <<5024, 5109>>,
      <<5112, 5117>>, <<7296, 7304>>, <<7312, 7354>>, <<7357, 7359>>, <<7424, 7467>>, <<7531, 7543>>,
      <<7545, 7578>>, <<7680, 7957>>, <<7960, 7965>>, <<7968, 8005>>, <<8008, 8013>>, <<8016, 8023>>,
      <<8025, 8025>>, <<8027, 8027>>, <<8029, 8029>>, <<8031, 8061>>, <<8064, 8116>>, <<8118, 8124>>,
      <<8126, 8126>>, <<8130, 8132>>, <<8134, 8140>>, <<8144, 8147>>, <<8150, 8155>>, <<8160, 8172>>,
      <<8178, 8180>>, <<8182, 8188>>, <<8450, 8450>>, <<8455, 8455>>, <<8458, 8467>>, <<8469, 8469>>,
      <<8473, 8477>>, <<8484, 8484>>, <<8486, 8486>>, <<8488, 8488>>, <<8490, 8493>>, <<8495, 8500>>,
      <<8505, 8505>>, <<8508, 8511>>, <<8517, 8521>>, <<8526, 8526>>, <<8544, 8575>>, <<8579, 8580>>,
      <<9398, 9449>>, <<11264, 11387>>, <<11390, 11492>>, <<11499, 11502>>, <<11506, 11507>>, <<11520, 11557>>,
      <<11559, 11559>>, <<11565, 11565>>, <<42560, 42605>>, <<42624, 42651>>, <<42786, 42863>>, <<42865, 42887>>,
      <<42891, 42894>>, <<42896, 42954>>, <<42960, 42961>>, <<42963, 42963>>, <<42965, 42969>>, <<42997, 42998>>,
      <<43002, 43002>>, <<43824, 43866>>, <<43872, 43880>>, <<43888, 43967>>, <<64256, 64262>>, <<64275, 64279>>,
      <<65313, 65338>>, <<65345, 65370>>, <<66560, 66639>>, <<66736, 66771>>, <<66776, 66811>>, <<66928, 66938>>,
      <<66940, 66954>>, <<66956, 66962>>, <<66964, 66965>>, <<66967, 66977>>, <<66979, 66993>>, <<66995, 67001>>,
      <<67003, 67004>>, <<68736, 68786>>, <<68800, 68850>>, <<71840, 71903>>, <<93760, 93823>>, <<119808, 119892>>,
      <<119894, 119964>>, <<119966, 119967>>, <<119970, 119970>>, <<119973, 119974>>, <<119977, 119980>>, <<119982, 119993>>,
      <<119995, 119995>>, <<119997, 120003>>, <<120005, 120069>>, <<120071, 120074>>, <<120077, 120084>>, <<120086, 120092>>,
      <<120094, 120121>>, <<120123, 120126>>, <<120128, 120132>>, <<120134, 120134>>, <<120138, 120144>>, <<120146, 120485>>,
      <<120488, 120512>>, <<120514, 120538>>, <<120540, 120570>>, <<120572, 120596>>, <<120598, 120628>>, <<120630, 120654>>,
      <<120656, 120686>>, <<120688, 120712>>, <<120714, 120744>>, <<120746, 120770>>, <<120772, 120779>>, <<122624, 122633>>,
      <<122635, 122654>>, <<125184, 125251>>, <<127280, 127305>>, <<127312, 127337>>, <<127344, 127369>> }

\* str.lower() of one character from U+0080 on: <<first, last, step, offset>> says that
\* the characters first, first + step, ..., last map to themselves plus offset
LowerRuns ==
    { <<192, 214, 1, 32>>, <<216, 222, 1, 32>>, <<256, 302, 2, 1>>, <<306, 310, 2, 1>>,
      <<313, 327, 2, 1>>, <<330, 374, 2, 1>>, <<376, 376, 1, -121>>, <<377, 381, 2, 1>>,
      <<385, 385, 1, 210>>, <<386, 388, 2, 1>>, <<390, 390, 1, 206>>, <<391, 391, 1, 1>>,
      <<393, 394, 1, 205>>, <<395, 395, 1, 1>>, <<398, 398, 1, 79>>, <<399, 399, 1, 202>>,
      <<400, 400, 1, 203>>, <<401, 401, 1, 1>>, <<403, 403, 1, 205>>, <<404, 404, 1, 207>>,
      <<406, 406, 1, 211>>, <<407, 407, 1, 209>>, <<408, 408, 1, 1>>, <<412, 412, 1, 211>>,
      <<413, 413, 1, 213>>, <<415, 415, 1, 214>>, <<416, 420, 2, 1>>, <<422, 422, 1, 218>>,
      <<423, 423, 1, 1>>, <<425, 425, 1, 218>>, <<428, 428, 1, 1>>, <<430, 430, 1, 218>>,
      <<431, 431, 1, 1>>, <<433, 434, 1, 217>>, <<435, 437, 2, 1>>, <<439, 439, 1, 219>>,
      <<440, 440, 1, 1>>, <<444, 444, 1, 1>>, <<452, 452, 1, 2>>, <<453, 453, 1, 1>>,
      <<455, 455, 1, 2>>, <<456, 456, 1, 1>>, <<458, 458, 1, 2>>, <<459, 475, 2, 1>>,
      <<478, 494, 2, 1>>, <<497, 497, 1, 2>>, <<498, 500, 2, 1>>, <<502, 502, 1, -97>>,
      <<503, 503, 1, -56>>, <<504, 542, 2, 1>>, <<544, 544, 1, -130>>, <<546, 562, 2, 1>>,
      <<570, 570, 1, 10795>>, <<571, 571, 1, 1>>, <<573, 573, 1, -163>>, <<574, 574, 1, 10792>>,
      <<577, 577, 1, 1>>, <<579, 579, 1, -195>>, <<580, 580, 1, 69>>, <<581, 581, 1, 71>>,
      <<582, 590, 2, 1>>, <<880, 882, 2, 1>>, <<886, 886, 1, 1>>, <<895, 895, 1, 116>>,
      <<902, 902, 1, 38>>, <<904, 906, 1, 37>>, <<908, 908, 1, 64>>, <<910, 911, 1, 63>>,
      <<913, 929, 1, 32>>, <<931, 939, 1, 32>>, <<975, 975, 1, 8>>, <<984, 1006, 2, 1>>,
      <<1012, 1012, 1, -60>>, <<1015, 1015, 1, 1>>, <<1017, 1017, 1, -7>>, <<1018, 1018, 1, 1>>,
      <<1021, 1023, 1, -130>>, <<1024, 1039, 1, 80>>, <<1040, 1071, 1, 32>>, <<1120, 1152, 2, 1>>,
      <<1162, 1214, 2, 1>>, <<1216, 1216, 1, 15>>, <<1217, 1229, 2, 1>>, <<1232, 1326, 2, 1>>,
      <<1329, 1366, 1, 48>>, <<4256, 4293, 1, 7264>>, <<4295, 4295, 1, 7264>>, <<4301, 4301, 1, 7264>>,
      <<5024, 5103, 1, 38864>>, <<5104, 5109, 1, 8>>, <<7312, 7354, 1, -3008>>, <<7357, 7359, 1, -3008>>,
      <<7680, 7828, 2, 1>>, <<7838, 7838, 1, -7615>>, <<7840, 7934, 2, 1>>, <<7944, 7951, 1, -8>>,
      <<7960, 7965, 1, -8>>, <<7976, 7983, 1, -8>>, <<7992, 7999, 1, -8>>, <<8008, 8013, 1, -8>>,
      <<8025, 8031, 2, -8>>, <<8040, 8047, 1, -8>>, <<8072, 8079, 1, -8>>, <<8088, 8095, 1, -8>>,
      <<8104, 8111, 1, -8>>, <<8120, 8121, 1, -8>>, <<8122, 8123, 1, -74>>, <<8124, 8124, 1, -9>>,
      <<8136, 8139, 1, -86>>, <<8140, 8140, 1, -9>>, <<8152, 8153, 1, -8>>, <<8154, 8155, 1, -100>>,
      <<8168, 8169, 1, -8>>, <<8170, 8171, 1, -112>>, <<8172, 8172, 1, -7>>, <<8184, 8185, 1, -128>>,
      <<8186, 8187, 1, -126>>, <<8188, 8188, 1, -9>>, <<8486, 8486, 1, -7517>>, <<8490, 8490, 1, -8383>>,
      <<8491, 8491, 1, -8262>>, <<8498, 8498, 1, 28>>, <<8544, 8559, 1, 16>>, <<8579, 8579, 1, 1>>,
      <<9398, 9423, 1, 26>>, <<11264, 11311, 1, 48>>, <<11360, 11360, 1, 1>>, <<11362, 11362, 1, -10743>>,
      <<11363, 11363, 1, -3814>>, <<11364, 11364, 1, -10727>>, <<11367, 11371, 2, 1>>, <<11373, 11373, 1, -10780>>,
      <<11374, 11374, 1, -10749>>, <<11375, 11375, 1, -10783>>, <<11376, 11376, 1, -10782>>, <<11378, 11378, 1, 1>>,
      <<11381, 11381, 1, 1>>, <<11390, 11391, 1, -10815>>, <<11392, 11490, 2, 1>>, <<11499, 11501, 2, 1>>,
      <<11506, 11506, 1, 1>>, <<42560, 42604, 2, 1>>, <<42624, 42650, 2, 1>>, <<42786, 42798, 2, 1>>,
      <<42802, 42862, 2, 1>>, <<42873, 42875, 2, 1>>, <<42877, 42877, 1, -35332>>, <<42878, 42886, 2, 1>>,
      <<42891, 42891, 1, 1>>, <<42893, 42893, 1, -42280>>, <<42896, 42898, 2, 1>>, <<42902, 42920, 2, 1>>,
      <<42922, 42922, 1, -42308>>, <<42923, 42923, 1, -42319>>, <<42924, 42924, 1, -42315>>, <<42925, 42925, 1, -42305>>,
      <<42926, 42926, 1, -42308>>, <<42928, 42928, 1, -42258>>, <<42929, 42929, 1, -42282>>, <<42930, 42930, 1, -42261>>,
      <<42931, 42931, 1, 928>>, <<42932, 42946, 2, 1>>, <<42948, 42948, 1, -48>>, <<42949, 42949, 1, -42307>>,
      <<42950, 42950, 1, -35384>>, <<42951, 42953, 2, 1>>, <<42960, 42960, 1, 1>>, <<42966, 42968, 2, 1>>,
      <<42997, 42997, 1, 1>>, <<65313, 65338, 1, 32>>, <<66560, 66599, 1, 40>>, <<66736, 66771, 1, 40>>,
      <<66928, 66938, 1, 39>>, <<66940, 66954, 1, 39>>, <<66956, 66962, 1, 39>>, <<66964, 66965, 1, 39>>,
      <<68736, 68786, 1, 64>>, <<71840, 71871, 1, 32>>, <<93760, 93791, 1, 32>>, <<125184, 125217, 1, 34>> }

CaseIgnorable(c) == InRanges(c, CaseIgnorableRanges)
Cased(c) == InRanges(c, CasedRanges)

\* the capital sigma at position i of s is in final position: a cased letter comes
\* before it and none after it, case-ignorable characters skipped on both sides
FinalSigma(s, i) ==
    LET before == {j \in 1..(i - 1) : ~CaseIgnorable(s[j])}
        after == {j \in (i + 1)..Len(s) : ~CaseIgnorable(s[j])}
    IN  /\ before # {}
        /\ Cased(s[Max(before)])
        /\ after = {} \/ ~Cased(s[Min(after)])

\* str.lower() of one character, whatever is around it: a text of one character, of
\* two for U+0130
LowerChar(c) ==
    IF c < 128 THEN <<IF 65 <= c /\ c <= 90 THEN c + 32 ELSE c>>
    ELSE IF c = 304 THEN <<105, 775>>
    ELSE IF \E r \in LowerRuns : r[1] <= c /\ c <= r[2] /\ (c - r[1]) % r[3] = 0
    THEN <<c + (CHOOSE r \in LowerRuns : r[1] <= c /\ c <= r[2] /\ (c - r[1]) % r[3] = 0)[4]>>
    ELSE <<c>>

RECURSIVE LowerFrom(_, _)
LowerFrom(s, i) ==
    IF i > Len(s) THEN <<>>
    ELSE (IF s[i] = 931 THEN <<IF FinalSigma(s, i) THEN 962 ELSE 963>> ELSE LowerChar(s[i]))
             \o LowerFrom(s, i + 1)

\* str.lower()
Lower(s) == LowerFrom(s, 1)

\* sub occurs in s at offset i (1-based)
OccursAt(sub, s, i) ==
    /\ i >= 1
    /\ i + Len(sub) - 1 <= Len(s)
    /\ \A k \in 1..Len(sub) : s[i + k - 1] = sub[k]

\* Python's "sub in s"
Contains(sub, s) == \E i \in 1..(Len(s) + 1) : OccursAt(sub, s, i)

\* str.count(sub): non-overlapping occurrences, scanning from the left
RECURSIVE CountFrom(_, _, _)
CountFrom(sub, s, i) ==
    IF i > Len(s) + 1 THEN 0
    ELSE IF OccursAt(sub, s, i)
         THEN 1 + CountFrom(sub, s, i + (IF Len(sub) = 0 THEN 1 ELSE Len(sub)))
         ELSE CountFrom(sub, s, i + 1)

Count(sub, s) == CountFrom(sub, s, 1)

WhiteSpace(c) == InRanges(c, WhiteSpaceRanges)

\* str.strip()
Strip(s) ==
    LET keep == {i \in DOMAIN s : ~WhiteSpace(s[i])}
    IN  IF keep = {} THEN <<>> ELSE SubSeq(s, Min(keep), Max(keep))

\* str.split('\n')
RECURSIVE SplitLines(_)
SplitLines(s) ==
    IF \A i \in DOMAIN s : s[i] # 10 THEN <<s>>
    ELSE LET k == Min({i \in DOMAIN s : s[i] = 10})
         IN  <<SubSeq(s, 1, k - 1)>> \o SplitLines(SubSeq(s, k + 1, Len(s)))

\* str() of a non-negative int
RECURSIVE Digits(_)
Digits(n) == IF n < 10 THEN <<48 + n>> ELSE Digits(n \div 10) \o <<48 + (n % 10)>>

\* str() of an int
Decimal(n) == IF n < 0 THEN <<45>> \o Digits(0 - n) ELSE Digits(n)

\* n in hexadecimal, lower case, on width digits
RECURSIVE Hex(_, _)
Hex(n, width) ==
    IF width = 0 THEN <<>>
    ELSE Hex(n \div 16, width - 1) \o <<IF n % 16 < 10 THEN 48 + (n % 16) ELSE 87 + (n % 16)>>

\* str.isprintable() of one character
Printable(c) == IF c < 128 THEN 32 <= c /\ c < 127 ELSE ~InRanges(c, NonPrintableRanges)

\* repr() of one character inside the quotes q: the backslash and the quote in use
\* get a backslash, tab, line feed and carriage return their letter, and every other
\* character that is not printable its code in hexadecimal
ReprChar(c, q) ==
    IF c = q \/ c = 92 THEN <<92, c>>
    ELSE IF c = 9 THEN <<92, 116>>
    ELSE IF c = 10 THEN <<92, 110>>
    ELSE IF c = 13 THEN <<92, 114>>
    ELSE IF Printable(c) THEN <<c>>
    ELSE IF c < 256 THEN <<92, 120>> \o Hex(c, 2)
    ELSE IF c < 65536 THEN <<92, 117>> \o Hex(c, 4)
    ELSE <<92, 85>> \o Hex(c, 8)

RECURSIVE ReprChars(_, _)
ReprChars(s, q) == IF s = <<>> THEN <<>> ELSE ReprChar(s[1], q) \o ReprChars(Tail(s), q)

\* repr() of a str: in single quotes, or in double quotes when the text holds a
\* single quote and no double quote
Repr(s) ==
    LET single == \E i \in DOMAIN s : s[i] = 39
        double == \E i \in DOMAIN s : s[i] = 34
        q == IF single /\ ~double THEN 34 ELSE 39
    IN  <<q>> \o ReprChars(s, q) \o <<q>>

RECURSIVE ReprItems(_)
ReprItems(ss) ==
    IF ss = <<>> THEN <<>>
    ELSE IF Len(ss) = 1 THEN Repr(ss[1])
    ELSE Repr(ss[1]) \o <<44, 32>> \o ReprItems(Tail(ss))

\* a list of str inside an f-string: str() of the list, its elements as repr() gives them
Join(ss) == <<91>> \o ReprItems(ss) \o <<93>>

\* the first n elements of a sequence: Python's s[:n]
Take(s, n) == SubSeq(s, 1, IF Len(s) < n THEN Len(s) ELSE n)

RECURSIVE SumSeq(_)
SumSeq(s) == IF s = <<>> THEN 0 ELSE s[1] + SumSeq(Tail(s))

(***************************************************************************)
(* Numbers.  A Python float that is finite and not negative, and an int    *)
(* too large for the integers of this module, is the set of the positions  *)
(* of the ones in its binary notation: {3, 2, -1} is 12.5 and {} is 0.  A  *)
(* float has its ones within 53 consecutive positions, none below -1074;   *)
(* numbers from 2^1024 on, where a float overflows, are not modelled.      *)
(***************************************************************************)
\* the number n, a natural number of this module
RECURSIVE Binary(_)
Binary(n) == IF n = 0 THEN {} ELSE (IF n % 2 = 1 THEN {0} ELSE {}) \cup {e + 1 : e \in Binary(n \div 2)}

\* x * 2^k
Shift(x, k) == {e + k : e \in x}

\* x + y, exactly
RECURSIVE Plus(_, _)
Plus(x, y) == IF y = {} THEN x ELSE Plus((x \cup y) \ (x \cap y), Shift(x \cap y, 1))

\* x * n for a natural number n, exactly
RECURSIVE Times(_, _)
Times(x, n) ==
    IF n = 0 THEN {}
    ELSE Plus(IF n % 2 = 1 THEN x ELSE {}, Shift(Times(x, n \div 2), 1))

\* x > y
Greater(x, y) ==
    LET differ == (x \cup y) \ (x \cap y)
    IN  differ # {} /\ Max(differ) \in x

\* the float nearest to x, the even one of two that are equally near
Nearest(x) ==
    IF x = {} THEN {}
    ELSE LET last == IF Max(x) - 52 < -1074 THEN -1074 ELSE Max(x) - 52
             kept == {e \in x : e >= last}
             up == /\ (last - 1) \in x
                   /\ last \in x \/ \E e \in x : e < last - 1
         IN  IF up THEN Plus(kept, {last}) ELSE kept

\* the number of binary digits of a natural number
RECURSIVE BitLength(_)
BitLength(n) == IF n = 0 THEN 0 ELSE 1 + BitLength(n \div 2)

\* the natural number with the binary digits x, for a number below 2^31
RECURSIVE Natural(_)
Natural(x) == IF x = {} THEN 0 ELSE 2 ^ Max(x) + Natural(x \ {Max(x)})

\* the binary long division of x by n (0 < n < 2^24), width positions at a time, from
\* position e downwards and at least down to position low: rem is the remainder
\* and quotient the digits of the quotient so far; next is the first position the
\* division has not reached
RECURSIVE LongDivision(_, _, _, _, _, _, _)
LongDivision(x, n, width, e, low, rem, quotient) ==
    IF e < low THEN [quotient |-> quotient, remainder |-> rem, next |-> e]
    ELSE LET bottom == e - width + 1
             r == rem * (2 ^ width)
                    + Natural(Shift({i \in x : bottom <= i /\ i <= e}, 0 - bottom))
         IN  LongDivision(x, n, width, e - width, low, r % n,
                          quotient \cup Shift(Binary(r \div n), bottom))

\* the positions a step of the division by n can take without leaving the integers
DivisionWidth(n) == 30 - BitLength(n)

\* float + float
FloatAdd(x, y) == Nearest(Plus(x, y))

\* float / int and int / int for a divisor 0 < n < 2^24: the float nearest to the
\* quotient.  The division is carried at least 56 positions below the first one of
\* the quotient; what is left then only says that the quotient is not exact
FloatDivInt(x, n) ==
    IF x = {} THEN {}
    ELSE LET low == Min({Min(x), Max(x) - BitLength(n) - 56})
             d == LongDivision(x, n, DivisionWidth(n), Max(x), low, 0, {})
         IN  Nearest(d.quotient \cup (IF d.remainder # 0 THEN {d.next} ELSE {}))

\* float * int
FloatTimesInt(x, n) == Nearest(Times(x, n))

\* sum() of a sequence of floats: from the left, rounding after each addition
RECURSIVE FloatSumFrom(_, _, _)
FloatSumFrom(xs, i, acc) ==
    IF i > Len(xs) THEN acc ELSE FloatSumFrom(xs, i + 1, FloatAdd(acc, xs[i]))

FloatSum(xs) == FloatSumFrom(xs, 1, {})

\* max() of a non-empty sequence of floats: the first of the largest
FloatMax(xs) ==
    xs[Min({i \in DOMAIN xs : \A j \in DOMAIN xs : ~Greater(xs[j], xs[i])})]

\* str() of a natural number given in binary: its decimal digits, none for 0
RECURSIVE NaturalDigits(_)
NaturalDigits(x) ==
    IF x = {} THEN <<>>
    ELSE LET width == DivisionWidth(10)
             top == width * ((Max(x) \div width) + 1) - 1
             d == LongDivision(x, 10, width, top, 0, 0, {})
         IN  NaturalDigits(d.quotient) \o <<48 + d.remainder>>

\* f"{x:.1f}": the exact value of the float rounded to one decimal, ties to even
FormatFixed1(x) ==
    LET tenfold == Times(x, 10)
        whole == {e \in tenfold : e >= 0}
        up == /\ -1 \in tenfold
              /\ 0 \in tenfold \/ \E e \in tenfold : e < -1
        tenths == NaturalDigits(IF up THEN Plus(whole, {0}) ELSE whole)
    IN  IF Len(tenths) < 2 THEN <<48, 46>> \o (IF tenths = <<>> THEN <<48>> ELSE tenths)
        ELSE SubSeq(tenths, 1, Len(tenths) - 1) \o <<46, tenths[Len(tenths)]>>

(***************************************************************************)
(* Program constants.                                                      *)
(***************************************************************************)
WS_EX_TOOLWINDOW == 128
WS_VISIBLE == 268435456
BytesPerKB == 1024
HighMemoryMB == 500
CpuRounds == 5
HighCpuPercent == 50
MinScreenshotBytes == 1000
HeaderLines == 2
MaxShownWindows == 3
MaxShownConnections == 3
ImmediateActionBelow == 70
NeedsImprovementBelow == 85

Severities == {"low", "medium", "high", "critical"}

\* add_result (lines 51-60) stores the severity it is given without comparing it with
\* the four names: a client can pass any string, such as these
SeverityArguments == Severities \cup {"info", "HIGH"}

legitimate_parents ==
    {Text("explorer.exe"), Text("services.exe"), Text("winlogon.exe"), Text("dwm.exe")}

legitimate_patterns ==
    {Text("windows"), Text("system"), Text("service"), Text("update"), Text("security"),
     Text("network"), Text("audio"), Text("display"), Text("manager"), Text("configuration")}

LoopbackAddresses == {Text("127.0.0.1"), Text("::1")}

\* the exceptions the per-process loops catch: (psutil.NoSuchProcess, psutil.AccessDenied)
ProcessErrors == {"NoSuchProcess", "AccessDenied"}

\* x & mask # 0 for a one-bit mask
HasBit(x, mask) == (x \div mask) % 2 = 1

(***************************************************************************)
(* TestResult and add_result.  The name of a test and a severity are       *)
(* strings of this module: the program only compares them as a whole.      *)
(***************************************************************************)
TestResult(test, passed, details, severity) ==
    [test |-> test, passed |-> passed, details |-> details, severity |-> severity]

\* add_result overwriting the newest result instead of appending
add_result_overwriting(rs, test, passed, details, severity) ==
    IF rs = <<>> THEN <<TestResult(test, passed, details, severity)>>
    ELSE [rs EXCEPT ![Len(rs)] = TestResult(test, passed, details, severity)]

add_result(rs, test, passed, details, severity) ==
    Append(rs, TestResult(test, passed, details, severity))

(***************************************************************************)
(* The target resolver.  Each operator returns [exc, value]: exc is the    *)
(* exception that leaves the call, "" when it returns.                     *)
(***************************************************************************)
find_target_processes(pname, plat) ==
    IF plat.iter_exc # "" THEN [exc |-> plat.iter_exc, value |-> <<>>]
    ELSE IF \E i \in DOMAIN plat.procs : plat.procs[i].info_none
         \* None.lower(): AttributeError, which line 77 does not catch
         THEN [exc |-> "AttributeError", value |-> <<>>]
    ELSE [exc |-> "",
          value |-> SelectSeq(plat.procs, LAMBDA p : Contains(pname, Lower(p.info_name)))]

\* the callback without its test that the title is not empty
WindowMatches_untitled(wtitle, w) ==
    /\ w.enum_exc = ""
    /\ w.visible
    /\ (wtitle = <<>> \/ Contains(wtitle, Lower(w.title)))

\* the callback comparing the title as it is, without lowering it
WindowMatches_case_sensitive(wtitle, w) ==
    /\ w.enum_exc = ""
    /\ w.visible
    /\ w.title # <<>>
    /\ (wtitle = <<>> \/ Contains(wtitle, w.title))

\* enum_window_callback's test of one window
WindowMatches(wtitle, w) ==
    /\ w.enum_exc = ""
    /\ w.visible
    /\ w.title # <<>>
    /\ (wtitle = <<>> \/ Contains(wtitle, Lower(w.title)))

find_target_windows(wtitle, plat) ==
    IF plat.enum_exc # "" THEN [exc |-> plat.enum_exc, value |-> <<>>]
    ELSE LET found == SelectSeq(plat.windows, LAMBDA w : WindowMatches(wtitle, w))
         IN  [exc |-> "", value |-> [i \in DOMAIN found |-> <<found[i].hwnd, found[i].title>>]]

\* the window a handle names
WindowOf(plat, hwnd) == CHOOSE w \in {plat.windows[i] : i \in DOMAIN plat.windows} : w.hwnd = hwnd

(***************************************************************************)
(* The probes.  Each <probe>_call operator computes what one call of the   *)
(* method does: [exc, result, ...], where exc is the exception that leaves *)
(* the method ("" when it returns) and result the TestResult it passes to  *)
(* add_result.                                                             *)
(***************************************************************************)
Returned(test, passed, details, severity) ==
    [exc |-> "", result |-> TestResult(test, passed, details, severity)]

Propagated(test, exc) ==
    [exc |-> exc, result |-> TestResult(test, FALSE, <<>>, "none")]

\* the first element of a sequence of exception names that is not "" and not caught
FirstUncaught(excs, caught) ==
    IF \E i \in DOMAIN excs : excs[i] # "" /\ excs[i] \notin caught
    THEN excs[CHOOSE i \in DOMAIN excs :
                 /\ excs[i] # "" /\ excs[i] \notin caught
                 /\ \A j \in 1..(i - 1) : excs[j] = "" \/ excs[j] \in caught]
    ELSE ""

\* ---- test_psutil_detection (lines 98-107)
psutil_call(pname, plat) ==
    LET found == find_target_processes(pname, plat)
        names == [i \in DOMAIN found.value |-> found.value[i].info_name]
    IN  IF found.exc # "" THEN Propagated("PSUtil Process Detection", found.exc)
        ELSE IF found.value # <<>>
        THEN Returned("PSUtil Process Detection", FALSE,
                      Text("Found ") \o Decimal(Len(found.value)) \o Text(" processes: ")
                          \o Join(names),
                      "high")
        ELSE Returned("PSUtil Process Detection", TRUE,
                      Text("No processes detected by psutil"), "low")

\* ---- test_tasklist_detection (lines 109-133)
tasklist_call(pname, plat) ==
    LET run == plat.tasklist
        output == Lower(run.stdout)
    IN  IF run.exc # ""
        THEN Returned("TaskList Detection", TRUE,
                      Text("TaskList test failed: ") \o run.message, "medium")
        ELSE IF run.returncode # 0
        THEN Returned("TaskList Detection", TRUE,
                      Text("TaskList command failed (access restricted?)"), "medium")
        ELSE IF Contains(pname, output)
        THEN Returned("TaskList Detection", FALSE,
                      Text("Process detected ") \o Decimal(Count(pname, output))
                          \o Text(" times in tasklist"),
                      "high")
        ELSE Returned("TaskList Detection", TRUE, Text("Process hidden from tasklist"), "low")

\* ---- test_wmic_detection (lines 135-157)
wmic_call(pname, plat) ==
    LET run == plat.wmic
        output == Lower(run.stdout)
    IN  IF run.exc # ""
        THEN Returned("WMIC Detection", TRUE, Text("WMIC test failed: ") \o run.message, "medium")
        ELSE IF run.returncode # 0
        THEN Returned("WMIC Detection", TRUE, Text("WMIC access blocked or failed"), "medium")
        ELSE IF Contains(pname, output)
        THEN Returned("WMIC Detection", FALSE, Text("Process detected by WMIC queries"), "critical")
        ELSE Returned("WMIC Detection", TRUE, Text("Process hidden from WMIC"), "low")

\* ---- test_powershell_detection (lines 159-185)
powershell_call(pname, plat) ==
    LET run == plat.powershell
        output == Strip(run.stdout)
        lines == SelectSeq(SplitLines(output), LAMBDA line : Strip(line) # <<>>)
        detected == Len(lines) > HeaderLines /\ Contains(pname, Lower(output))
    IN  IF run.exc # ""
        THEN Returned("PowerShell Detection", TRUE,
                      Text("PowerShell test failed: ") \o run.message, "medium")
        ELSE IF run.returncode # 0
        THEN Returned("PowerShell Detection", TRUE, Text("PowerShell execution blocked"), "medium")
        ELSE IF detected
        THEN Returned("PowerShell Detection", FALSE,
                      Text("Process detected by Get-Process: ")
                          \o Decimal(Len(lines) - HeaderLines) \o Text(" instances"), "high")
        ELSE Returned("PowerShell Detection", TRUE,
                      Text("Process hidden from PowerShell Get-Process"), "low")

\* ---- test_window_enumeration (lines 187-198)
WindowDetail(win) == Text("HWND:") \o Decimal(win[1]) \o Text(" '") \o win[2] \o Text("'")

window_enumeration_call(wtitle, plat) ==
    LET found == find_target_windows(wtitle, plat)
        shown == Take(found.value, MaxShownWindows)
    IN  IF found.exc # "" THEN Propagated("Win32 Window Enumeration", found.exc)
        ELSE IF found.value # <<>>
        THEN Returned("Win32 Window Enumeration", FALSE,
                      Text("Found ") \o Decimal(Len(found.value)) \o Text(" windows: ")
                          \o Join([i \in DOMAIN shown |-> WindowDetail(shown[i])]),
                      "critical")
        ELSE Returned("Win32 Window Enumeration", TRUE,
                      Text("No windows detected by EnumWindows"), "low")

\* ---- test_taskbar_presence (lines 200-227)
InTaskbar(w) ==
    /\ w.style_exc = ""
    /\ ~HasBit(w.ex_style, WS_EX_TOOLWINDOW)
    /\ HasBit(w.style, WS_VISIBLE)

\* the probe reporting a failure when there is no window to test
taskbar_call_empty_fails(twins, plat) ==
    LET taskbar_windows == Cardinality({i \in DOMAIN twins : InTaskbar(WindowOf(plat, twins[i][1]))})
    IN  IF twins = <<>>
        THEN Returned("Taskbar Presence", FALSE, Text("No windows to test taskbar presence"), "medium")
        ELSE IF taskbar_windows > 0
        THEN Returned("Taskbar Presence", FALSE,
                      Decimal(taskbar_windows) \o Text(" windows likely visible in taskbar"), "medium")
        ELSE Returned("Taskbar Presence", TRUE, Text("Windows hidden from taskbar"), "low")

taskbar_call(twins, plat) ==
    LET taskbar_windows == Cardinality({i \in DOMAIN twins : InTaskbar(WindowOf(plat, twins[i][1]))})
    IN  IF twins = <<>>
        THEN Returned("Taskbar Presence", TRUE, Text("No windows to test taskbar presence"), "low")
        ELSE IF taskbar_windows > 0
        THEN Returned("Taskbar Presence", FALSE,
                      Decimal(taskbar_windows) \o Text(" windows likely visible in taskbar"), "medium")
        ELSE Returned("Taskbar Presence", TRUE, Text("Windows hidden from taskbar"), "low")

\* ---- test_alt_tab_visibility (lines 229-254)
InAltTab(w, title) ==
    /\ w.visible_exc = ""
    /\ w.visible_now
    /\ w.style_exc = ""
    /\ ~HasBit(w.ex_style, WS_EX_TOOLWINDOW)
    /\ Strip(title) # <<>>

alt_tab_call(twins, plat) ==
    LET alt_tab_visible ==
            Cardinality({i \in DOMAIN twins : InAltTab(WindowOf(plat, twins[i][1]), twins[i][2])})
    IN  IF twins = <<>>
        THEN Returned("Alt+Tab Visibility", TRUE, Text("No windows to test Alt+Tab visibility"), "low")
        ELSE IF alt_tab_visible > 0
        THEN Returned("Alt+Tab Visibility", FALSE,
                      Decimal(alt_tab_visible) \o Text(" windows likely visible in Alt+Tab"), "medium")
        ELSE Returned("Alt+Tab Visibility", TRUE, Text("Windows hidden from Alt+Tab"), "low")

\* ---- test_process_tree (lines 256-281)
\* the exception the loop body raises for one process ("" when it completes)
TreeExc(p) ==
    IF p.parent_exc # "" THEN p.parent_exc
    ELSE IF p.parent_none THEN ""
    ELSE IF p.parent_name_exc # "" THEN p.parent_name_exc
    ELSE IF Lower(p.parent_name) \in legitimate_parents THEN ""
    ELSE p.name_exc

TreeSuspicious(p) ==
    /\ TreeExc(p) = ""
    /\ ~p.parent_none
    /\ Lower(p.parent_name) \notin legitimate_parents

\* line 272: the name, the arrow U+2192 and the parent's name in lower case
process_tree_call(tprocs) ==
    LET exc == FirstUncaught([i \in DOMAIN tprocs |-> TreeExc(tprocs[i])], ProcessErrors)
        sus == SelectSeq(tprocs, TreeSuspicious)
        suspicious_parents ==
            [i \in DOMAIN sus |-> sus[i].info_name \o <<8594>> \o Lower(sus[i].parent_name)]
    IN  IF tprocs = <<>>
        THEN Returned("Process Tree Analysis", TRUE, Text("No processes to analyze"), "low")
        ELSE IF exc # "" THEN Propagated("Process Tree Analysis", exc)
        ELSE IF suspicious_parents # <<>>
        THEN Returned("Process Tree Analysis", FALSE,
                      Text("Suspicious parent processes: ") \o Join(suspicious_parents), "medium")
        ELSE Returned("Process Tree Analysis", TRUE, Text("Process tree appears legitimate"), "low")

\* ---- test_network_connections (lines 283-314)
\* a connection is [raddr |-> <<>>] or [raddr |-> <<ip, port>>], ip a text
IsExternal(conn) == Len(conn.raddr) > 0 /\ conn.raddr[1] \notin LoopbackAddresses

RECURSIVE ExternalConnections(_)
ExternalConnections(tprocs) ==
    IF tprocs = <<>> THEN <<>>
    ELSE LET p == Head(tprocs)
             ext == SelectSeq(p.conns, IsExternal)
             here == IF p.conn_exc # "" THEN <<>>
                     ELSE [i \in DOMAIN ext |->
                              ext[i].raddr[1] \o Text(":") \o Decimal(ext[i].raddr[2])]
         IN  here \o ExternalConnections(Tail(tprocs))

network_call(tprocs) ==
    LET exc == FirstUncaught([i \in DOMAIN tprocs |-> tprocs[i].conn_exc], ProcessErrors)
        total_connections ==
            SumSeq([i \in DOMAIN tprocs |->
                       IF tprocs[i].conn_exc # "" THEN 0 ELSE Len(tprocs[i].conns)])
        suspicious_connections == ExternalConnections(tprocs)
    IN  IF tprocs = <<>>
        THEN Returned("Network Connections", TRUE,
                      Text("No processes to test network connections"), "low")
        ELSE IF exc # "" THEN Propagated("Network Connections", exc)
        ELSE IF suspicious_connections # <<>>
        THEN Returned("Network Connections", FALSE,
                      Text("External connections detected: ")
                          \o Join(Take(suspicious_connections, MaxShownConnections)), "medium")
        ELSE IF total_connections > 0
        THEN Returned("Network Connections", TRUE,
                      Text("Only localhost connections detected (") \o Decimal(total_connections)
                          \o Text(")"),
                      "low")
        ELSE Returned("Network Connections", TRUE, Text("No network connections detected"), "low")

\* ---- test_memory_usage (lines 316-344)
\* memory_info.rss / 1024 / 1024 for rss, an int given in binary
MemoryMB(rss) == FloatDivInt(FloatDivInt(rss, BytesPerKB), BytesPerKB)

\* memory_mb > 500
IsHighMemory(rss) == Greater(MemoryMB(rss), Binary(HighMemoryMB))

MemoryExc(p) ==
    IF p.mem_exc # "" THEN p.mem_exc
    ELSE IF IsHighMemory(p.rss) THEN p.name_exc
    ELSE ""

\* the loop without its handler for NoSuchProcess and AccessDenied
memory_call_uncaught(tprocs) ==
    LET exc == FirstUncaught([i \in DOMAIN tprocs |-> MemoryExc(tprocs[i])], {})
        measured == SelectSeq(tprocs, LAMBDA p : p.mem_exc = "")
        total_memory == FloatSum([i \in DOMAIN measured |-> MemoryMB(measured[i].rss)])
        high == SelectSeq(tprocs, LAMBDA p : MemoryExc(p) = "" /\ IsHighMemory(p.rss))
        high_memory_procs ==
            [i \in DOMAIN high |->
                high[i].info_name \o Text(": ") \o FormatFixed1(MemoryMB(high[i].rss)) \o Text("MB")]
    IN  IF tprocs = <<>>
        THEN Returned("Memory Usage", TRUE, Text("No processes to test memory usage"), "low")
        ELSE IF exc # "" THEN Propagated("Memory Usage", exc)
        ELSE IF high_memory_procs # <<>>
        THEN Returned("Memory Usage", FALSE,
                      Text("High memory usage detected: ") \o Join(high_memory_procs), "medium")
        ELSE Returned("Memory Usage", TRUE,
                      Text("Normal memory usage: ") \o FormatFixed1(total_memory)
                          \o Text("MB total"), "low")

\* total_memory is the sum, from the left, of memory_mb over the processes whose
\* memory_info() returned
memory_call(tprocs) ==
    LET exc == FirstUncaught([i \in DOMAIN tprocs |-> MemoryExc(tprocs[i])], ProcessErrors)
        measured == SelectSeq(tprocs, LAMBDA p : p.mem_exc = "")
        total_memory == FloatSum([i \in DOMAIN measured |-> MemoryMB(measured[i].rss)])
        high == SelectSeq(tprocs, LAMBDA p : MemoryExc(p) = "" /\ IsHighMemory(p.rss))
        high_memory_procs ==
            [i \in DOMAIN high |->
                high[i].info_name \o Text(": ") \o FormatFixed1(MemoryMB(high[i].rss)) \o Text("MB")]
    IN  IF tprocs = <<>>
        THEN Returned("Memory Usage", TRUE, Text("No processes to test memory usage"), "low")
        ELSE IF exc # "" THEN Propagated("Memory Usage", exc)
        ELSE IF high_memory_procs # <<>>
        THEN Returned("Memory Usage", FALSE,
                      Text("High memory usage detected: ") \o Join(high_memory_procs), "medium")
        ELSE Returned("Memory Usage", TRUE,
                      Text("Normal memory usage: ") \o FormatFixed1(total_memory)
                          \o Text("MB total"), "low")

\* ---- test_cpu_usage (lines 346-386)
\* the processes sampled in one round, and the round's sample (avg_cpu): total_cpu,
\* the sum from the left of their cpu_percent(), divided by their number
ActiveInRound(tprocs, i) == SelectSeq(tprocs, LAMBDA p : p.cpu[i].exc = "")

RoundSample(tprocs, i) ==
    LET active == ActiveInRound(tprocs, i)
    IN  FloatDivInt(FloatSum([k \in DOMAIN active |-> active[k].cpu[i].pct]), Len(active))

RECURSIVE CpuSamplesFrom(_, _)
CpuSamplesFrom(tprocs, i) ==
    IF i > CpuRounds THEN <<>>
    ELSE (IF ActiveInRound(tprocs, i) # <<>> THEN <<RoundSample(tprocs, i)>> ELSE <<>>)
             \o CpuSamplesFrom(tprocs, i + 1)

\* cpu_samples after the five rounds
CpuSamples(tprocs) == CpuSamplesFrom(tprocs, 1)

\* the exception that leaves round i: the first one cpu_percent() raises that is
\* neither NoSuchProcess nor AccessDenied
RoundExc(tprocs, i) ==
    FirstUncaught([k \in DOMAIN tprocs |-> tprocs[k].cpu[i].exc], ProcessErrors)

RECURSIVE CpuExcFrom(_, _)
CpuExcFrom(tprocs, i) ==
    IF i > CpuRounds THEN ""
    ELSE IF RoundExc(tprocs, i) # "" THEN RoundExc(tprocs, i) ELSE CpuExcFrom(tprocs, i + 1)

\* the report failing from 50 percent on, not only above it
cpu_report_inclusive(samples) ==
    LET avg_cpu == FloatDivInt(FloatSum(samples), Len(samples))
        max_cpu == FloatMax(samples)
        shown == Text("avg=") \o FormatFixed1(avg_cpu) \o Text("%, max=")
                     \o FormatFixed1(max_cpu) \o Text("%")
    IN  IF samples = <<>>
        THEN Returned("CPU Usage", TRUE, Text("No CPU usage data available"), "low")
        ELSE IF ~Greater(Binary(HighCpuPercent), max_cpu)
        THEN Returned("CPU Usage", FALSE, Text("High CPU usage detected: ") \o shown, "medium")
        ELSE Returned("CPU Usage", TRUE, Text("Normal CPU usage: ") \o shown, "low")

\* lines 374-386: the result the probe appends after its rounds
cpu_report(samples) ==
    LET avg_cpu == FloatDivInt(FloatSum(samples), Len(samples))
        max_cpu == FloatMax(samples)
        shown == Text("avg=") \o FormatFixed1(avg_cpu) \o Text("%, max=")
                     \o FormatFixed1(max_cpu) \o Text("%")
    IN  IF samples = <<>>
        THEN Returned("CPU Usage", TRUE, Text("No CPU usage data available"), "low")
        ELSE IF Greater(max_cpu, Binary(HighCpuPercent))
        THEN Returned("CPU Usage", FALSE, Text("High CPU usage detected: ") \o shown, "medium")
        ELSE Returned("CPU Usage", TRUE, Text("Normal CPU usage: ") \o shown, "low")

\* the guard of lines 348-351
cpu_no_processes ==
    Returned("CPU Usage", TRUE, Text("No processes to test CPU usage"), "low")

\* a whole call during which self.target_processes stays tprocs
cpu_call(tprocs) ==
    LET exc == CpuExcFrom(tprocs, 1)
    IN  IF tprocs = <<>> THEN cpu_no_processes
        ELSE IF exc # "" THEN Propagated("CPU Usage", exc)
        ELSE cpu_report(CpuSamples(tprocs))

\* ---- test_screen_capture_protection (lines 388-419)
\* the probe reporting a successful capture with the lowest severity
screen_capture_call_low(plat) ==
    LET shot == plat.screen
    IN  IF shot.exc # ""
        THEN Returned("Screen Capture Protection", TRUE,
                      Text("Screenshot failed: ") \o shot.message
                          \o Text(" (DRM protection likely working)"), "low")
        ELSE IF ~shot.exists
        THEN Returned("Screen Capture Protection", TRUE, Text("Screenshot completely blocked"), "low")
        ELSE IF shot.size > MinScreenshotBytes
        THEN Returned("Screen Capture Protection", FALSE,
                      Text("Screenshot successful (") \o Decimal(shot.size)
                          \o Text(" bytes) - DRM protection may be bypassed"), "low")
        ELSE Returned("Screen Capture Protection", TRUE,
                      Text("Screenshot blocked or corrupted - DRM protection working"), "low")

screen_capture_call(plat) ==
    LET shot == plat.screen
    IN  IF shot.exc # ""
        THEN Returned("Screen Capture Protection", TRUE,
                      Text("Screenshot failed: ") \o shot.message
                          \o Text(" (DRM protection likely working)"), "low")
        ELSE IF ~shot.exists
        THEN Returned("Screen Capture Protection", TRUE, Text("Screenshot completely blocked"), "low")
        ELSE IF shot.size > MinScreenshotBytes
        THEN Returned("Screen Capture Protection", FALSE,
                      Text("Screenshot successful (") \o Decimal(shot.size)
                          \o Text(" bytes) - DRM protection may be bypassed"), "critical")
        ELSE Returned("Screen Capture Protection", TRUE,
                      Text("Screenshot blocked or corrupted - DRM protection working"), "low")

\* ---- test_process_injection_resistance (lines 421-457)
InjectionOpened(p) == p.inj_open_exc = "" /\ p.inj_handle # 0

\* handles the probe opened and whose CloseHandle raised
InjectionLeaks(tprocs) ==
    {<<tprocs[i].pid, "VM_WRITE">> : i \in {k \in DOMAIN tprocs :
        InjectionOpened(tprocs[k]) /\ tprocs[k].inj_close_exc # ""}}

injection_call(tprocs) ==
    LET injection_attempts == Len(tprocs)
        successful_injections == Len(SelectSeq(tprocs, InjectionOpened))
    IN  IF tprocs = <<>>
        THEN Returned("Process Injection Resistance", TRUE,
                      Text("No processes to test injection resistance"), "low")
        ELSE IF successful_injections > 0
        THEN Returned("Process Injection Resistance", FALSE,
                      Decimal(successful_injections) \o Text("/") \o Decimal(injection_attempts)
                          \o Text(" processes vulnerable to injection"), "high")
        ELSE Returned("Process Injection Resistance", TRUE,
                      Text("All ") \o Decimal(injection_attempts)
                          \o Text(" processes protected from injection"), "low")

\* ---- test_debugging_protection (lines 459-500)
DebugOpened(p) == p.dbg_open_exc = "" /\ p.dbg_handle # 0
DebugAttachedTo(p) == DebugOpened(p) /\ p.dbg_attach_exc = ""

\* processes attached and not detached: DebugActiveProcessStop raised
DebugStillAttached(tprocs) ==
    {tprocs[i].pid : i \in {k \in DOMAIN tprocs :
        DebugAttachedTo(tprocs[k]) /\ tprocs[k].dbg_stop_exc # ""}}

\* handles the probe opened and whose CloseHandle (in the finally) raised
DebugLeaks(tprocs) ==
    {<<tprocs[i].pid, "ALL_ACCESS">> : i \in {k \in DOMAIN tprocs :
        DebugOpened(tprocs[k]) /\ tprocs[k].dbg_close_exc # ""}}

debugging_call(tprocs) ==
    LET debug_attempts == Len(tprocs)
        successful_debugs == Len(SelectSeq(tprocs, DebugAttachedTo))
    IN  IF tprocs = <<>>
        THEN Returned("Anti-Debugging Protection", TRUE,
                      Text("No processes to test debugging protection"), "low")
        ELSE IF successful_debugs > 0
        THEN Returned("Anti-Debugging Protection", FALSE,
                      Decimal(successful_debugs) \o Text("/") \o Decimal(debug_attempts)
                          \o Text(" processes vulnerable to debugging"), "critical")
        ELSE Returned("Anti-Debugging Protection", TRUE,
                      Text("All ") \o Decimal(debug_attempts)
                          \o Text(" processes protected from debugging"), "low")

\* ---- test_process_name_legitimacy (lines 502-532)
IsLegitimateName(name) == \E pattern \in legitimate_patterns : Contains(pattern, name)

name_legitimacy_call(tprocs) ==
    LET exc == FirstUncaught([i \in DOMAIN tprocs |-> tprocs[i].name_exc], ProcessErrors)
        sus == SelectSeq(tprocs, LAMBDA p : p.name_exc = "" /\ ~IsLegitimateName(Lower(p.info_name)))
        suspicious_names == [i \in DOMAIN sus |-> Lower(sus[i].info_name)]
    IN  IF tprocs = <<>>
        THEN Returned("Process Name Legitimacy", TRUE,
                      Text("No processes to test name legitimacy"), "low")
        ELSE IF exc # "" THEN Propagated("Process Name Legitimacy", exc)
        ELSE IF suspicious_names # <<>>
        THEN Returned("Process Name Legitimacy", FALSE,
                      Text("Suspicious process names: ") \o Join(suspicious_names), "medium")
        ELSE Returned("Process Name Legitimacy", TRUE,
                      Text("Process names appear legitimate"), "low")

(***************************************************************************)
(* The aggregator: generate_report (lines 568-619) and save_detailed_report*)
(* (lines 621-656).  The score is the float passed / total * 100, or the   *)
(* int 0.                                                                  *)
(***************************************************************************)
NoOutput == [printed |-> FALSE]

PassedOf(rs) == SelectSeq(rs, LAMBDA r : r.passed)
FailsOf(rs, severity) == SelectSeq(rs, LAMBDA r : ~r.passed /\ r.severity = severity)

\* the score as the fraction passed / total, not multiplied by 100
ConsoleScore_fraction(rs) ==
    IF Len(rs) > 0 THEN FloatDivInt(Binary(Len(SelectSeq(rs, LAMBDA r : r.passed))), Len(rs))
    ELSE {}

\* lines 574-576
ConsoleScore(rs) ==
    LET total_tests == Len(rs)
        passed_tests == Len(PassedOf(rs))
    IN  IF total_tests > 0 THEN FloatTimesInt(FloatDivInt(Binary(passed_tests), total_tests), 100)
        ELSE {}

\* the tiers with the thresholds taken inclusively
Recommendation_inclusive(score) ==
    IF ~Greater(score, Binary(ImmediateActionBelow)) THEN "IMMEDIATE ACTION REQUIRED"
    ELSE IF ~Greater(score, Binary(NeedsImprovementBelow)) THEN "GOOD STEALTH, NEEDS IMPROVEMENT"
    ELSE "EXCELLENT STEALTH COVERAGE"

\* lines 602-616
Recommendation(score) ==
    IF Greater(Binary(ImmediateActionBelow), score) THEN "IMMEDIATE ACTION REQUIRED"
    ELSE IF Greater(Binary(NeedsImprovementBelow), score) THEN "GOOD STEALTH, NEEDS IMPROVEMENT"
    ELSE "EXCELLENT STEALTH COVERAGE"

\* line 578
ScoreLine(passed_tests, total_tests, score) ==
    Decimal(passed_tests) \o Text("/") \o Decimal(total_tests) \o Text(" (")
        \o FormatFixed1(score) \o Text("%)")

\* lines 568-619: the score is computed once (line 576) and used by the score line
\* and by the recommendation
generate_report_output(rs) ==
    LET score == ConsoleScore(rs)
    IN  [printed |-> TRUE,
         total_tests |-> Len(rs),
         passed_tests |-> Len(PassedOf(rs)),
         score |-> score,
         score_line |-> ScoreLine(Len(PassedOf(rs)), Len(rs), score),
         critical_fails |-> FailsOf(rs, "critical"),
         high_fails |-> FailsOf(rs, "high"),
         medium_fails |-> FailsOf(rs, "medium"),
         recommendation |-> Recommendation(score)]

\* line 633
ReportScore(rs) ==
    IF rs # <<>> THEN FloatTimesInt(FloatDivInt(Binary(Len(PassedOf(rs))), Len(rs)), 100)
    ELSE {}

report_data(pname, wtitle, rs) ==
    [printed |-> TRUE,
     target_process |-> pname,
     target_window |-> wtitle,
     total_tests |-> Len(rs),
     passed_tests |-> Len(PassedOf(rs)),
     score_percentage |-> ReportScore(rs),
     test_results |-> [i \in DOMAIN rs |->
                         [test |-> rs[i].test, passed |-> rs[i].passed,
                          details |-> rs[i].details, severity |-> rs[i].severity]],
     summary |-> [critical_issues |-> Len(FailsOf(rs, "critical")),
                  high_issues |-> Len(FailsOf(rs, "high")),
                  medium_issues |-> Len(FailsOf(rs, "medium")),
                  low_issues |-> Len(FailsOf(rs, "low"))]]

(***************************************************************************)
(* Platforms: the processes, windows and tools a run can meet.             *)
(***************************************************************************)
\* sizes of the platforms are given in megabytes
BytesPerMB == BytesPerKB * BytesPerKB

\* the line feed, which no string literal of this module can hold
LF == <<10>>

T_explorer == Text("explorer.exe")
T_cmd == Text("CMD.EXE")
T_DrmService == Text("DrmService.exe")
T_Drm_exe == Text("Drm.exe")
T_Drm == Text("Drm")
\* "DRM É", "DRM Éditeur" and "Drm écran"
T_DRM == Text("DRM ") \o <<201>>
T_Player == T_DRM \o Text("diteur")
T_Overlay == Text("Drm ") \o <<233>> \o Text("cran")
\* "Notepad" and a zero-width space, which repr() escapes
T_Notepad == Text("Notepad") \o <<8203>>
\* a space, a form feed and an ideographic space
T_Blank == <<32, 12, 12288>>
T_TasklistClean ==
    Text("\"Image Name\",\"PID\"") \o LF \o Text("\"explorer.exe\",\"4\"") \o LF
T_TasklistListed ==
    Text("\"Image Name\",\"PID\"") \o LF \o Text("\"Drm.exe\",\"8\"") \o LF
        \o Text("\"DRM.EXE\",\"12\"") \o LF
T_PsHeader == LF \o Text("ProcessName Id") \o LF \o Text("----------- --") \o LF
\* the rows are followed by a line of a form feed and a line separator, which strip() removes
T_PsListed == T_PsHeader \o Text("Drm 8") \o LF \o <<12, 8232>> \o LF
T_Loopback4 == Text("127.0.0.1")
T_Loopback6 == Text("::1")
T_Remote == Text("93.184.216.34")

\* str(e) of the exceptions the tools raise
T_TasklistTimeout == Text("Command '['tasklist', '/fo', 'csv']' timed out after 10 seconds")
T_WmicTimeout ==
    Text("Command '['wmic', 'process', 'get', 'name,processid,executablepath', '/format:csv']' timed out after 15 seconds")
T_NotFound == Text("[WinError 2] The system cannot find the file specified")
T_Denied == Text("[WinError 5] Access is denied")
T_GrabFailed == Text("gdi32.GetDIBits() failed.")

\* cpu_percent() of the five rounds: whole percentages, as floats
CpuSeries(pcts) ==
    [i \in 1..CpuRounds |-> [exc |-> "", pct |-> Binary(pcts[((i - 1) % Len(pcts)) + 1])]]
CpuFailing(exc) == [i \in 1..CpuRounds |-> [exc |-> exc, pct |-> {}]]

\* a process that answers every call and gives nothing away
QuietProcess(pid, name) ==
    [pid |-> pid, info_name |-> name, info_none |-> FALSE, name_exc |-> "",
     parent_exc |-> "", parent_none |-> FALSE, parent_name |-> T_explorer, parent_name_exc |-> "",
     conn_exc |-> "", conns |-> <<[raddr |-> <<T_Loopback4, 8080>>], [raddr |-> <<>>]>>,
     mem_exc |-> "", rss |-> Binary(100 * BytesPerMB),
     cpu |-> CpuSeries(<<5>>),
     inj_open_exc |-> "pywintypes.error", inj_handle |-> 0, inj_close_exc |-> "",
     dbg_open_exc |-> "pywintypes.error", dbg_handle |-> 0,
     dbg_attach_exc |-> "", dbg_stop_exc |-> "", dbg_close_exc |-> ""]

AllCallsRaise(p, exc) ==
    [p EXCEPT !.name_exc = exc, !.parent_exc = exc, !.conn_exc = exc, !.mem_exc = exc,
              !.cpu = CpuFailing(exc), !.inj_open_exc = exc, !.dbg_open_exc = exc]

ProcessOfKind(kind, pid) ==
    CASE kind = "stealthy" -> QuietProcess(pid, T_DrmService)
      [] kind = "exposed" ->
            [QuietProcess(pid, T_Drm_exe) EXCEPT
                !.parent_name = T_cmd,
                !.conns = <<[raddr |-> <<T_Remote, 443>>], [raddr |-> <<T_Loopback6, 9000>>]>>,
                !.rss = Binary(600 * BytesPerMB + 52429),
                !.cpu = CpuSeries(<<10, 20, 30, 70, 15>>),
                !.inj_open_exc = "", !.inj_handle = pid + 1,
                !.dbg_open_exc = "", !.dbg_handle = pid + 2]
      [] kind = "vanished" -> AllCallsRaise(QuietProcess(pid, T_Drm_exe), "NoSuchProcess")
      [] kind = "other" -> [QuietProcess(pid, T_explorer) EXCEPT !.parent_none = TRUE]
      [] kind = "unnamed" -> [QuietProcess(pid, <<>>) EXCEPT !.info_none = TRUE, !.name_exc = "AccessDenied"]
      [] kind = "denied" ->
            [QuietProcess(pid, T_Drm_exe) EXCEPT
                !.parent_name = T_cmd, !.name_exc = "AccessDenied",
                !.conn_exc = "AccessDenied", !.rss = Binary(600 * BytesPerMB),
                !.cpu = [i \in 1..CpuRounds |->
                            IF i % 2 = 0 THEN [exc |-> "AccessDenied", pct |-> {}]
                            ELSE [exc |-> "", pct |-> Binary(90)]]]
      [] kind = "stuck" ->
            [QuietProcess(pid, T_DrmService) EXCEPT
                !.inj_open_exc = "", !.inj_handle = pid + 1, !.inj_close_exc = "pywintypes.error",
                !.dbg_open_exc = "", !.dbg_handle = pid + 2,
                !.dbg_stop_exc = "pywintypes.error", !.dbg_close_exc = "pywintypes.error"]
      [] kind = "steady" -> [QuietProcess(pid, T_Drm_exe) EXCEPT !.cpu = CpuSeries(<<50, 49>>)]
      [] kind = "faulty_tree" -> [QuietProcess(pid, T_Drm_exe) EXCEPT !.parent_exc = "OSError"]
      [] kind = "faulty_net" -> [QuietProcess(pid, T_Drm_exe) EXCEPT !.conn_exc = "OSError"]
      [] kind = "faulty_mem" -> [QuietProcess(pid, T_Drm_exe) EXCEPT !.mem_exc = "OSError"]
      [] kind = "faulty_cpu" -> [QuietProcess(pid, T_Drm_exe) EXCEPT !.cpu = CpuFailing("OSError")]
      [] kind = "faulty_name" -> [QuietProcess(pid, T_Drm_exe) EXCEPT !.name_exc = "OSError"]
      [] kind = "light" ->
            [QuietProcess(pid, T_DrmService) EXCEPT
                !.rss = Binary(BytesPerMB \div 3),
                !.cpu = [CpuSeries(<<1, 1, 1, 1>>) EXCEPT ![CpuRounds] = [exc |-> "NoSuchProcess", pct |-> {}]]]
      [] kind = "lighter" ->
            [QuietProcess(pid, T_DrmService) EXCEPT
                !.rss = Binary(BytesPerMB \div 5),
                !.cpu = [CpuSeries(<<1, 0, 1, 1>>) EXCEPT ![CpuRounds] = [exc |-> "NoSuchProcess", pct |-> {}]]]
      [] kind = "lightest" ->
            [QuietProcess(pid, T_DrmService) EXCEPT
                !.rss = Binary(BytesPerMB \div 7),
                !.cpu = [CpuSeries(<<1, 0, 1, 0>>) EXCEPT ![CpuRounds] = [exc |-> "NoSuchProcess", pct |-> {}]]]

CoreProcessKinds == {"stealthy", "exposed", "vanished", "other"}
SpecialProcessKinds ==
    {"unnamed", "denied", "stuck", "steady", "faulty_tree", "faulty_net", "faulty_mem", "faulty_cpu",
     "faulty_name"}

\* all sequences over S of length at most n
SeqsUpTo(S, n) == UNION {[1..k -> S] : k \in 0..n}

ProcessKindLists ==
    SeqsUpTo(CoreProcessKinds, MaxProcs)
        \cup {<<k>> : k \in SpecialProcessKinds}
        \cup {<<k, "exposed">> : k \in SpecialProcessKinds}
        \cup {<<"stealthy", k>> : k \in SpecialProcessKinds}
        \cup {<<"light", "lighter", "lightest">>}

ProcessesOf(kinds) == [i \in DOMAIN kinds |-> ProcessOfKind(kinds[i], 4 * i)]

\* a visible, titled application window
PlainWindow(hwnd, title) ==
    [hwnd |-> hwnd, enum_exc |-> "", visible |-> TRUE, title |-> title,
     style_exc |-> "", ex_style |-> 0, style |-> WS_VISIBLE,
     visible_exc |-> "", visible_now |-> TRUE]

WindowOfKind(kind, hwnd) ==
    CASE kind = "player" -> PlainWindow(hwnd, T_Player)
      [] kind = "tool" -> [PlainWindow(hwnd, T_Overlay) EXCEPT !.ex_style = WS_EX_TOOLWINDOW]
      [] kind = "other" -> PlainWindow(hwnd, T_Notepad)
      [] kind = "hidden" -> [PlainWindow(hwnd, T_Player) EXCEPT !.visible = FALSE, !.style = 0,
                                                              !.visible_now = FALSE]
      [] kind = "untitled" -> PlainWindow(hwnd, <<>>)
      [] kind = "blank" -> PlainWindow(hwnd, T_Blank)
      [] kind = "unreadable" -> [PlainWindow(hwnd, T_Player) EXCEPT !.enum_exc = "pywintypes.error"]
      [] kind = "stale" -> [PlainWindow(hwnd, T_Player) EXCEPT !.style_exc = "pywintypes.error",
                                                             !.visible_exc = "pywintypes.error"]
      [] kind = "closing" -> [PlainWindow(hwnd, T_Player) EXCEPT !.visible_now = FALSE, !.style = 0]

CoreWindowKinds == {"player", "tool", "other"}
SpecialWindowKinds == {"hidden", "untitled", "blank", "unreadable", "stale", "closing"}

WindowKindLists ==
    SeqsUpTo(CoreWindowKinds, MaxWins)
        \cup {<<k>> : k \in SpecialWindowKinds}
        \cup {<<k, "player">> : k \in SpecialWindowKinds}
        \cup {<<"tool", k>> : k \in SpecialWindowKinds}

WindowsOf(kinds) == [i \in DOMAIN kinds |-> WindowOfKind(kinds[i], 1000 + i)]

\* outcomes of subprocess.run and of the screen capture
Ran(returncode, stdout) ==
    [exc |-> "", message |-> <<>>, returncode |-> returncode, stdout |-> stdout]
RunFailed(exc, message) == [exc |-> exc, message |-> message, returncode |-> 0, stdout |-> <<>>]
Shot(exists, size) == [exc |-> "", message |-> <<>>, exists |-> exists, size |-> size]
ShotFailed(exc, message) == [exc |-> exc, message |-> message, exists |-> FALSE, size |-> 0]

ToolsOfScenario(scenario) ==
    CASE scenario = "hidden" ->
            [iter_exc |-> "", enum_exc |-> "",
             tasklist |-> Ran(0, T_TasklistClean), wmic |-> Ran(0, T_TasklistClean),
             powershell |-> Ran(0, <<>>), screen |-> Shot(TRUE, 1000)]
      [] scenario = "listed" ->
            [iter_exc |-> "", enum_exc |-> "",
             tasklist |-> Ran(0, T_TasklistListed), wmic |-> Ran(0, T_TasklistListed),
             powershell |-> Ran(0, T_PsListed), screen |-> Shot(TRUE, 1001)]
      [] scenario = "restricted" ->
            [iter_exc |-> "", enum_exc |-> "",
             tasklist |-> Ran(1, <<>>), wmic |-> Ran(1, T_TasklistListed),
             powershell |-> Ran(1, <<>>), screen |-> Shot(FALSE, 0)]
      [] scenario = "broken" ->
            [iter_exc |-> "", enum_exc |-> "",
             tasklist |-> RunFailed("TimeoutExpired", T_TasklistTimeout),
             wmic |-> RunFailed("FileNotFoundError", T_NotFound),
             powershell |-> RunFailed("PermissionError", T_Denied),
             screen |-> ShotFailed("ScreenShotError", T_GrabFailed)]
      [] scenario = "mixed" ->
            [iter_exc |-> "", enum_exc |-> "",
             tasklist |-> Ran(0, T_TasklistListed), wmic |-> RunFailed("TimeoutExpired", T_WmicTimeout),
             powershell |-> Ran(0, T_PsHeader), screen |-> Shot(TRUE, 250000)]
      [] scenario = "no_process_list" ->
            [iter_exc |-> "OSError", enum_exc |-> "",
             tasklist |-> Ran(0, T_TasklistClean), wmic |-> Ran(0, T_TasklistClean),
             powershell |-> Ran(0, <<>>), screen |-> Shot(TRUE, 1000)]
      [] scenario = "no_window_list" ->
            [iter_exc |-> "", enum_exc |-> "pywintypes.error",
             tasklist |-> Ran(0, T_TasklistClean), wmic |-> Ran(0, T_TasklistClean),
             powershell |-> Ran(0, <<>>), screen |-> Shot(TRUE, 1000)]

ToolScenarios ==
    {"hidden", "listed", "restricted", "broken", "mixed", "no_process_list", "no_window_list"}

Platform(process_kinds, window_kinds, scenario) ==
    LET tools == ToolsOfScenario(scenario)
    IN  [procs |-> ProcessesOf(process_kinds), windows |-> WindowsOf(window_kinds),
         iter_exc |-> tools.iter_exc, enum_exc |-> tools.enum_exc,
         tasklist |-> tools.tasklist, wmic |-> tools.wmic,
         powershell |-> tools.powershell, screen |-> tools.screen]

\* the platforms of a run: every process list with a few window lists, every window
\* list with a few process lists, and every tool scenario with a few of both
Platforms ==
    {Platform(ps, ws, sc) :
        ps \in ProcessKindLists, ws \in {<<>>, <<"player">>}, sc \in {"hidden", "listed"}}
    \cup
    {Platform(ps, ws, sc) :
        ps \in {<<>>, <<"exposed">>, <<"other", "stealthy">>}, ws \in WindowKindLists,
        sc \in {"hidden", "listed"}}
    \cup
    {Platform(ps, ws, sc) :
        ps \in {<<>>, <<"exposed">>, <<"stealthy">>, <<"other", "stealthy">>,
                <<"vanished", "exposed">>},
        ws \in {<<>>, <<"player">>, <<"tool", "other">>},
        sc \in ToolScenarios}

\* the command lines: argv[1], and argv[2] or ""
ProcessNameArgs == {T_Drm, <<>>}
WindowTitleArgs == {<<>>, T_DRM}

(***************************************************************************)
(* Control.  pc names the statement to execute next: a line of             *)
(* run_all_tests (lines 541-566), then main's save_detailed_report (line   *)
(* 671); "api" when a client calls the methods itself, in any order.  An   *)
(* exception that leaves a method ends a run ("aborted"); an API client    *)
(* sees it in raised and may go on.                                        *)
(***************************************************************************)
\* run_all_tests calling the taskbar probe before the window enumeration
RunOrder_swapped ==
    <<"test_psutil_detection", "test_tasklist_detection", "test_wmic_detection",
      "test_powershell_detection", "test_taskbar_presence", "test_window_enumeration",
      "test_alt_tab_visibility", "test_process_tree", "test_network_connections",
      "test_memory_usage", "test_cpu_usage", "test_screen_capture_protection",
      "test_process_injection_resistance", "test_debugging_protection",
      "test_process_name_legitimacy", "generate_report", "save_detailed_report", "done">>

RunOrder ==
    <<"test_psutil_detection",
      "test_tasklist_detection",
      "test_wmic_detection",
      "test_powershell_detection",
      "test_window_enumeration",
      "test_taskbar_presence",
      "test_alt_tab_visibility",
      "test_process_tree",
      "test_network_connections",
      "test_memory_usage",
      "test_cpu_usage",
      "test_screen_capture_protection",
      "test_process_injection_resistance",
      "test_debugging_protection",
      "test_process_name_legitimacy",
      "generate_report", "save_detailed_report", "done">>

Probes == {RunOrder[i] : i \in 1..15}

NextPc(step) == RunOrder[(CHOOSE i \in DOMAIN RunOrder : RunOrder[i] = step) + 1]

\* the calls an API client may have made before its next one: MaxCalls, and
\* MaxOverlap more while test_cpu_usage waits
CallsAllowed == MaxCalls + (IF cpu_round > 0 THEN MaxOverlap ELSE 0)

Callable(method) ==
    \/ pc = method
    \/ pc = "api" /\ calls < CallsAllowed

\* the end of a probe: add_result, or the exception leaving the method
Finish(o) ==
    /\ results' = IF o.exc = ""
                  THEN add_result(results, o.result.test, o.result.passed,
                                  o.result.details, o.result.severity)
                  ELSE results
    /\ raised' = o.exc
    /\ pc' = IF pc = "api" THEN "api" ELSE IF o.exc # "" THEN "aborted" ELSE NextPc(pc)
    /\ calls' = IF pc = "api" THEN calls + 1 ELSE calls

test_psutil_detection ==
    /\ Callable("test_psutil_detection")
    /\ LET o == psutil_call(process_name, platform)
           processes == find_target_processes(process_name, platform).value
       IN  /\ Finish(o)
           /\ target_processes' = IF o.exc = "" /\ processes # <<>> THEN processes
                                  ELSE target_processes
    /\ UNCHANGED <<cpu_round, cpu_samples>>
    /\ UNCHANGED <<process_name, window_title, target_windows, platform, console, report,
                   attached, handles>>

test_window_enumeration ==
    /\ Callable("test_window_enumeration")
    /\ LET o == window_enumeration_call(window_title, platform)
           windows == find_target_windows(window_title, platform).value
       IN  /\ Finish(o)
           /\ target_windows' = IF o.exc = "" /\ windows # <<>> THEN windows
                                ELSE target_windows
    /\ UNCHANGED <<cpu_round, cpu_samples>>
    /\ UNCHANGED <<process_name, window_title, target_processes, platform, console, report,
                   attached, handles>>

test_process_injection_resistance ==
    /\ Callable("test_process_injection_resistance")
    /\ Finish(injection_call(target_processes))
    /\ handles' = handles \cup InjectionLeaks(target_processes)
    /\ UNCHANGED <<cpu_round, cpu_samples>>
    /\ UNCHANGED <<process_name, window_title, target_processes, target_windows, platform,
                   console, report, attached>>

test_debugging_protection ==
    /\ Callable("test_debugging_protection")
    /\ Finish(debugging_call(target_processes))
    /\ attached' = attached \cup DebugStillAttached(target_processes)
    /\ handles' = handles \cup DebugLeaks(target_processes)
    /\ UNCHANGED <<cpu_round, cpu_samples>>
    /\ UNCHANGED <<process_name, window_title, target_processes, target_windows, platform,
                   console, report>>

test_tasklist_detection ==
    /\ Callable("test_tasklist_detection")
    /\ Finish(tasklist_call(process_name, platform))
    /\ UNCHANGED <<cpu_round, cpu_samples>>
    /\ UNCHANGED <<process_name, window_title, target_processes, target_windows, platform,
                   console, report, attached, handles>>

test_wmic_detection ==
    /\ Callable("test_wmic_detection")
    /\ Finish(wmic_call(process_name, platform))
    /\ UNCHANGED <<cpu_round, cpu_samples>>
    /\ UNCHANGED <<process_name, window_title, target_processes, target_windows, platform,
                   console, report, attached, handles>>

test_powershell_detection ==
    /\ Callable("test_powershell_detection")
    /\ Finish(powershell_call(process_name, platform))
    /\ UNCHANGED <<cpu_round, cpu_samples>>
    /\ UNCHANGED <<process_name, window_title, target_processes, target_windows, platform,
                   console, report, attached, handles>>

test_taskbar_presence ==
    /\ Callable("test_taskbar_presence")
    /\ Finish(taskbar_call(target_windows, platform))
    /\ UNCHANGED <<cpu_round, cpu_samples>>
    /\ UNCHANGED <<process_name, window_title, target_processes, target_windows, platform,
                   console, report, attached, handles>>

test_alt_tab_visibility ==
    /\ Callable("test_alt_tab_visibility")
    /\ Finish(alt_tab_call(target_windows, platform))
    /\ UNCHANGED <<cpu_round, cpu_samples>>
    /\ UNCHANGED <<process_name, window_title, target_processes, target_windows, platform,
                   console, report, attached, handles>>

test_process_tree ==
    /\ Callable("test_process_tree")
    /\ Finish(process_tree_call(target_processes))
    /\ UNCHANGED <<cpu_round, cpu_samples>>
    /\ UNCHANGED <<process_name, window_title, target_processes, target_windows, platform,
                   console, report, attached, handles>>

test_network_connections ==
    /\ Callable("test_network_connections")
    /\ Finish(network_call(target_processes))
    /\ UNCHANGED <<cpu_round, cpu_samples>>
    /\ UNCHANGED <<process_name, window_title, target_processes, target_windows, platform,
                   console, report, attached, handles>>

test_memory_usage ==
    /\ Callable("test_memory_usage")
    /\ Finish(memory_call(target_processes))
    /\ UNCHANGED <<cpu_round, cpu_samples>>
    /\ UNCHANGED <<process_name, window_title, target_processes, target_windows, platform,
                   console, report, attached, handles>>

\* lines 348-355: with no matched process the probe reports at once; otherwise it
\* starts its rounds with no sample
test_cpu_usage ==
    /\ Callable("test_cpu_usage")
    /\ cpu_round = 0
    /\ IF target_processes = <<>>
       THEN /\ Finish(cpu_no_processes)
            /\ UNCHANGED <<cpu_round, cpu_samples>>
       ELSE /\ cpu_round' = 1
            /\ cpu_samples' = <<>>
            /\ calls' = IF pc = "api" THEN calls + 1 ELSE calls
            /\ UNCHANGED <<results, raised, pc>>
    /\ UNCHANGED <<process_name, window_title, target_processes, target_windows, platform,
                   console, report, attached, handles>>

\* lines 357-372: one round.  It reads self.target_processes as it is now (line
\* 360), keeps the round's sample when a process could be sampled, and waits
\* (time.sleep, line 372); an exception other than NoSuchProcess and AccessDenied
\* leaves the method
test_cpu_usage_round ==
    /\ pc \in {"test_cpu_usage", "api"}
    /\ cpu_round \in 1..CpuRounds
    /\ IF RoundExc(target_processes, cpu_round) # ""
       THEN /\ raised' = RoundExc(target_processes, cpu_round)
            /\ pc' = IF pc = "api" THEN "api" ELSE "aborted"
            /\ cpu_round' = 0
            /\ cpu_samples' = <<>>
       ELSE /\ cpu_samples' =
                  IF ActiveInRound(target_processes, cpu_round) # <<>>
                  THEN Append(cpu_samples, RoundSample(target_processes, cpu_round))
                  ELSE cpu_samples
            /\ cpu_round' = cpu_round + 1
            /\ UNCHANGED <<raised, pc>>
    /\ UNCHANGED <<process_name, window_title, results, target_processes, target_windows,
                   platform, calls, console, report, attached, handles>>

\* lines 374-386: after the last wait the probe appends its result
test_cpu_usage_report ==
    /\ pc \in {"test_cpu_usage", "api"}
    /\ cpu_round = CpuRounds + 1
    /\ LET o == cpu_report(cpu_samples)
       IN  results' = add_result(results, o.result.test, o.result.passed,
                                 o.result.details, o.result.severity)
    /\ raised' = ""
    /\ pc' = IF pc = "api" THEN "api" ELSE NextPc(pc)
    /\ cpu_round' = 0
    /\ cpu_samples' = <<>>
    /\ UNCHANGED <<process_name, window_title, target_processes, target_windows, platform,
                   calls, console, report, attached, handles>>

test_screen_capture_protection ==
    /\ Callable("test_screen_capture_protection")
    /\ Finish(screen_capture_call(platform))
    /\ UNCHANGED <<cpu_round, cpu_samples>>
    /\ UNCHANGED <<process_name, window_title, target_processes, target_windows, platform,
                   console, report, attached, handles>>

test_process_name_legitimacy ==
    /\ Callable("test_process_name_legitimacy")
    /\ Finish(name_legitimacy_call(target_processes))
    /\ UNCHANGED <<cpu_round, cpu_samples>>
    /\ UNCHANGED <<process_name, window_title, target_processes, target_windows, platform,
                   console, report, attached, handles>>

generate_report ==
    /\ pc \in {"generate_report", "api"}
    /\ console' = generate_report_output(results)
    /\ raised' = ""
    /\ pc' = IF pc = "api" THEN "api" ELSE NextPc(pc)
    /\ UNCHANGED <<cpu_round, cpu_samples>>
    /\ UNCHANGED <<process_name, window_title, results, target_processes, target_windows,
                   platform, calls, report, attached, handles>>

save_detailed_report ==
    /\ pc \in {"save_detailed_report", "api"}
    /\ report' = report_data(process_name, window_title, results)
    /\ raised' = ""
    /\ pc' = IF pc = "api" THEN "api" ELSE NextPc(pc)
    /\ UNCHANGED <<cpu_round, cpu_samples>>
    /\ UNCHANGED <<process_name, window_title, results, target_processes, target_windows,
                   platform, calls, console, attached, handles>>

\* a direct call of add_result(test, passed, details, severity) by an API client
add_result_call ==
    /\ pc = "api"
    /\ calls < CallsAllowed
    /\ Len(results) < MaxResults
    /\ \E passed \in BOOLEAN, severity \in SeverityArguments :
          results' = add_result(results, "Custom", passed, Text("custom"), severity)
    /\ raised' = ""
    /\ calls' = calls + 1
    /\ UNCHANGED <<cpu_round, cpu_samples>>
    /\ UNCHANGED <<process_name, window_title, target_processes,
                   target_windows, platform, pc, console, report, attached, handles>>

(***************************************************************************)
(* Specifications.                                                         *)
(***************************************************************************)
\* StealthTester.__init__ (lines 39-44)
Constructed(pname_arg, wtitle_arg) ==
    /\ process_name = Lower(pname_arg)
    /\ window_title = Lower(wtitle_arg)
    /\ results = <<>>
    /\ target_processes = <<>>
    /\ target_windows = <<>>
    /\ raised = ""
    /\ calls = 0
    /\ console = NoOutput
    /\ report = NoOutput
    /\ attached = {}
    /\ handles = {}
    /\ cpu_round = 0
    /\ cpu_samples = <<>>

\* main(): tester = StealthTester(argv[1], argv[2]); tester.run_all_tests(); ...
Init ==
    /\ \E pname_arg \in ProcessNameArgs, wtitle_arg \in WindowTitleArgs :
          Constructed(pname_arg, wtitle_arg)
    /\ platform \in Platforms
    /\ pc = RunOrder[1]

Next ==
    \/ test_psutil_detection
    \/ test_tasklist_detection
    \/ test_wmic_detection
    \/ test_powershell_detection
    \/ test_window_enumeration
    \/ test_taskbar_presence
    \/ test_alt_tab_visibility
    \/ test_process_tree
    \/ test_network_connections
    \/ test_memory_usage
    \/ test_cpu_usage
    \/ test_cpu_usage_round
    \/ test_cpu_usage_report
    \/ test_screen_capture_protection
    \/ test_process_injection_resistance
    \/ test_debugging_protection
    \/ test_process_name_legitimacy
    \/ generate_report
    \/ save_detailed_report

Spec == Init /\ [][Next]_vars

(***************************************************************************)
(* A client of the class that calls its public methods itself, the probes  *)
(* and add_result, in any order (at most MaxCalls calls of them) and the   *)
(* two reports at any time.  A call that a second thread of the client     *)
(* makes while test_cpu_usage waits falls between two of its rounds (at    *)
(* most MaxOverlap such calls, and one test_cpu_usage at a time).          *)
(***************************************************************************)
ApiPlatforms ==
    { Platform(<<"exposed">>, <<"player">>, "listed"),
      Platform(<<"stealthy", "exposed">>, <<"tool", "other">>, "hidden"),
      Platform(<<"vanished">>, <<>>, "broken"),
      Platform(<<"faulty_tree">>, <<"stale">>, "restricted") }

InitApi ==
    /\ Constructed(T_Drm, <<>>)
    /\ platform \in ApiPlatforms
    /\ pc = "api"

NextApi ==
    \/ Next
    \/ add_result_call

SpecApi == InitApi /\ [][NextApi]_vars

(***************************************************************************)
(* The aggregator on its own: a client that builds a result sequence with  *)
(* add_result and reports on it.  The sequences of Init are those          *)
(* add_result builds from passed results followed by failed ones.          *)
(***************************************************************************)
BlockResults(n, k, severity) ==
    [i \in 1..n |-> TestResult("Custom", i <= k, Text("custom"),
                               IF i <= k THEN "low" ELSE severity)]

InitReport ==
    /\ process_name = Lower(T_Drm)
    /\ window_title = <<>>
    /\ target_processes = <<>>
    /\ target_windows = <<>>
    /\ raised = ""
    /\ calls = 0
    /\ console = NoOutput
    /\ report = NoOutput
    /\ attached = {}
    /\ handles = {}
    /\ cpu_round = 0
    /\ cpu_samples = <<>>
    /\ platform = Platform(<<>>, <<>>, "hidden")
    /\ pc = "api"
    /\ \E n \in 0..MaxTotal, k \in 0..MaxTotal, severity \in SeverityArguments :
          /\ k <= n
          /\ results = BlockResults(n, k, severity)

NextReport ==
    \/ add_result_call
    \/ generate_report
    \/ save_detailed_report

SpecReport == InitReport /\ [][NextReport]_vars

(***************************************************************************)
(* Properties.                                                             *)
(***************************************************************************)
Last(seq) == seq[Len(seq)]

\* the text details holds the text part
Mentions(details, part) ==
    \E i \in 1..(Len(details) - Len(part) + 1) :
        SubSeq(details, i, i + Len(part) - 1) = part

\* the step appends exactly one result
AppendsOne == Len(results') = Len(results) + 1 /\ SubSeq(results', 1, Len(results)) = results

ProcessProbes ==
    {"test_process_tree", "test_network_connections", "test_memory_usage", "test_cpu_usage",
     "test_process_injection_resistance", "test_debugging_protection",
     "test_process_name_legitimacy"}

WindowProbes == {"test_taskbar_presence", "test_alt_tab_visibility"}

\* the test names in catalogue order
CatalogueNames ==
    <<"PSUtil Process Detection", "TaskList Detection", "WMIC Detection", "PowerShell Detection",
      "Win32 Window Enumeration", "Taskbar Presence", "Alt+Tab Visibility",
      "Process Tree Analysis", "Network Connections", "Memory Usage", "CPU Usage",
      "Screen Capture Protection", "Process Injection Resistance", "Anti-Debugging Protection",
      "Process Name Legitimacy">>

\* the step ends the probe that run_all_tests is executing (the CPU probe takes
\* several steps, every other probe one)
ProbeReturns == pc \in Probes /\ pc' # pc

\* C1: a probe call never lets an error out: no step of a probe raises, and every
\* probe returns normally having made the result sequence exactly one longer.
C1_ProbeNeverPropagates ==
    [][(pc \in Probes) =>
          /\ raised' = ""
          /\ IF ProbeReturns THEN AppendsOne ELSE results' = results]_vars

\* C2: the result of a probe that catches errors at its boundary (the three
\* external commands and the screen capture) is passed=true at severity "medium"
\* whenever its tool failed (exception, timeout, non-zero exit, missing tool), and
\* for an exception the details carry the error text.
ToolOutcome(test) ==
    CASE test = "TaskList Detection" -> platform.tasklist
      [] test = "WMIC Detection" -> platform.wmic
      [] test = "PowerShell Detection" -> platform.powershell
      [] test = "Screen Capture Protection" ->
            [exc |-> platform.screen.exc, message |-> platform.screen.message,
             returncode |-> 0, stdout |-> <<>>]

BoundaryProbeNames ==
    {"TaskList Detection", "WMIC Detection", "PowerShell Detection", "Screen Capture Protection"}

ToolFailed(test) == ToolOutcome(test).exc # "" \/ ToolOutcome(test).returncode # 0

FailureReportedMedium(r) ==
    /\ r.passed
    /\ r.severity = "medium"
    /\ ToolOutcome(r.test).exc # "" => Mentions(r.details, ToolOutcome(r.test).message)

C2_ToolFailureIsMediumPass ==
    \A i \in DOMAIN results :
        (results[i].test \in BoundaryProbeNames /\ ToolFailed(results[i].test))
            => FailureReportedMedium(results[i])

\* C3: a probe invoked with its target list empty (no matched processes for a
\* process-dependent probe, no matched windows for a window-dependent probe)
\* appends one result with passed=true and severity "low".
C3_EmptyTargetsPassLow ==
    [][((pc \in ProcessProbes /\ target_processes = <<>>)
          \/ (pc \in WindowProbes /\ target_windows = <<>>))
       => (/\ raised' = ""
           /\ AppendsOne
           /\ Last(results').passed
           /\ Last(results').severity = "low")]_vars

\* a run in which the process probes and the window probes all met empty lists
C3_Witness ==
    /\ pc = "done"
    /\ target_processes = <<>>
    /\ target_windows = <<>>
    /\ \A i \in {6, 7, 8, 9, 10, 11, 13, 14, 15} :
          results[i].passed /\ results[i].severity = "low"

\* C4: in a complete run whose name filter matches no running process, the
\* process-list probe, the window-enumeration probe and the seven
\* process-dependent probes all report passed=true.
NoProcessMatches ==
    \A i \in DOMAIN platform.procs :
        ~Contains(process_name, Lower(platform.procs[i].info_name))

SomeWindowMatches ==
    \E i \in DOMAIN platform.windows :
        LET w == platform.windows[i]
        IN  /\ w.enum_exc = "" /\ w.visible /\ Len(w.title) > 0
            /\ (Len(window_title) = 0 \/ Contains(window_title, Lower(w.title)))

CompleteRun == pc = "done" /\ Len(results) = 15

ProcessSideAllPass ==
    /\ results[1].passed
    /\ \A i \in {8, 9, 10, 11, 13, 14, 15} : results[i].passed

C4_NoMatchAllPass ==
    (CompleteRun /\ NoProcessMatches) => (ProcessSideAllPass /\ results[5].passed)

\* C4 as amended: the window-enumeration probe depends on the window-title
\* filter alone, so in such a run it reports passed=true exactly when no visible
\* titled window matches that filter.
C4_NoMatchProcessSidePasses ==
    (CompleteRun /\ NoProcessMatches)
        => (ProcessSideAllPass /\ (results[5].passed <=> ~SomeWindowMatches))

C4_Witness ==
    /\ CompleteRun
    /\ NoProcessMatches
    /\ platform.procs # <<>>
    /\ SomeWindowMatches
    /\ ~results[5].passed

\* C5: the score of generate_report and of save_detailed_report lies in 0..100,
\* equals passedCount / totalCount * 100 (as floats do: up to 2^-40), is 0 for the
\* empty sequence, and the two functions agree on passed count, total and score
\* for the same sequence.
CountPassed(rs) == Cardinality({i \in DOMAIN rs : rs[i].passed})
CountFailed(rs) == Cardinality({i \in DOMAIN rs : ~rs[i].passed})

\* x and y differ by 2^-40 at most
Close(x, y) == ~Greater(x, Plus(y, {-40})) /\ ~Greater(y, Plus(x, {-40}))

\* a score is a number that is not negative, as every number written in binary here
ScoreIsPercentage(score, passed, total) ==
    /\ ~Greater(score, Binary(100))
    /\ IF total = 0 THEN score = {}
       ELSE Close(Times(score, total), Binary(passed * 100))

\* results has not grown since the output was produced
ConsoleCurrent == console.printed /\ console.total_tests = Len(results)
ReportCurrent == report.printed /\ report.total_tests = Len(results)

C5_ScoreIsBoundedPercentage ==
    /\ console.printed =>
          ScoreIsPercentage(console.score, console.passed_tests, console.total_tests)
    /\ report.printed =>
          ScoreIsPercentage(report.score_percentage, report.passed_tests, report.total_tests)
    /\ ConsoleCurrent => console.passed_tests = CountPassed(results)
    /\ ReportCurrent => report.passed_tests = CountPassed(results)
    /\ (ConsoleCurrent /\ ReportCurrent) =>
          /\ console.passed_tests = report.passed_tests
          /\ console.score = report.score_percentage

\* both reports made of one sequence with passes and failures (two of three passed:
\* 66.7 percent), and both of the empty one
C5_Witness ==
    /\ ConsoleCurrent
    /\ ReportCurrent
    /\ Len(results) = 3
    /\ CountPassed(results) = 2
    /\ console.score_line = Text("2/3 (66.7%)")

C5_WitnessEmpty ==
    /\ ConsoleCurrent
    /\ ReportCurrent
    /\ results = <<>>
    /\ console.score = {}
    /\ console.score_line = Text("0/0 (0.0%)")

SummaryTotal(summary) ==
    summary.critical_issues + summary.high_issues + summary.medium_issues + summary.low_issues

\* C6: in every persisted report passed_tests plus the number of failed results is
\* total_tests, and the four severity counts add up to the number of failed results,
\* for every result sequence that add_result can build.
C6_ReportCountsAddUp ==
    report.printed =>
        /\ report.passed_tests + CountFailed(report.test_results) = report.total_tests
        /\ SummaryTotal(report.summary) = CountFailed(report.test_results)

\* what the code does keep: passed and failed results always add up to the total,
\* and the four counts leave out exactly the failed results whose severity is none
\* of the four names
C6_CountsOfNamedSeverities ==
    report.printed =>
        /\ report.passed_tests + CountFailed(report.test_results) = report.total_tests
        /\ SummaryTotal(report.summary)
             = Len(SelectSeq(report.test_results,
                             LAMBDA r : ~r.passed /\ r.severity \in Severities))

\* a report of a sequence with a passed medium result and failures of two severities
C6_WitnessNamed ==
    /\ report.printed
    /\ report.total_tests = 3
    /\ report.summary.low_issues = 1
    /\ report.summary.critical_issues = 1
    /\ \E i \in DOMAIN report.test_results :
          report.test_results[i].passed /\ report.test_results[i].severity = "medium"

\* a report of a failed result whose severity is none of the four names: no count
\* holds it
C6_WitnessUnnamed ==
    /\ report.printed
    /\ report.total_tests = 2
    /\ report.passed_tests = 1
    /\ SummaryTotal(report.summary) = 0
    /\ \E i \in DOMAIN report.test_results :
          ~report.test_results[i].passed /\ report.test_results[i].severity = "info"

\* C7: reporting twice on the same sequence gives the same total, passed count,
\* score and severity buckets; no report changes the sequence, which only ever grows
\* by one result at its end.
C7_ReportsRepeatAndKeepResults ==
    [][/\ (results' = results \/ AppendsOne)
       /\ (console' # console \/ report' # report) => results' = results
       /\ (ConsoleCurrent /\ results' = results) => console' = console
       /\ (ReportCurrent /\ results' = results) => report' = report]_vars

\* both reports were made, of a sequence with failures, and are still current
C7_Witness ==
    /\ ConsoleCurrent
    /\ ReportCurrent
    /\ Len(results) = MaxResults
    /\ CountFailed(results) >= 2
    /\ Len(console.critical_fails) = report.summary.critical_issues
    /\ report.summary.critical_issues >= 1

\* C8: a probe's verdict does not depend on the other probes: for a fixed
\* platform the result it appends (passed, severity) is the one it gives on the
\* snapshot of matched processes and windows, whatever ran before it and in
\* whatever order.
SnapshotProcesses == find_target_processes(process_name, platform).value
SnapshotWindows == find_target_windows(window_title, platform).value

SnapshotCall(test) ==
    CASE test = "PSUtil Process Detection" -> psutil_call(process_name, platform)
      [] test = "TaskList Detection" -> tasklist_call(process_name, platform)
      [] test = "WMIC Detection" -> wmic_call(process_name, platform)
      [] test = "PowerShell Detection" -> powershell_call(process_name, platform)
      [] test = "Win32 Window Enumeration" ->
            window_enumeration_call(window_title, platform)
      [] test = "Taskbar Presence" -> taskbar_call(SnapshotWindows, platform)
      [] test = "Alt+Tab Visibility" -> alt_tab_call(SnapshotWindows, platform)
      [] test = "Process Tree Analysis" -> process_tree_call(SnapshotProcesses)
      [] test = "Network Connections" -> network_call(SnapshotProcesses)
      [] test = "Memory Usage" -> memory_call(SnapshotProcesses)
      [] test = "CPU Usage" -> cpu_call(SnapshotProcesses)
      [] test = "Screen Capture Protection" -> screen_capture_call(platform)
      [] test = "Process Injection Resistance" -> injection_call(SnapshotProcesses)
      [] test = "Anti-Debugging Protection" -> debugging_call(SnapshotProcesses)
      [] test = "Process Name Legitimacy" -> name_legitimacy_call(SnapshotProcesses)

\* a probe appended the result: a client's own add_result is no probe
ProbeAppended ==
    /\ AppendsOne
    /\ \E i \in DOMAIN CatalogueNames : Last(results').test = CatalogueNames[i]

C8_VerdictIndependentOfOrder ==
    [][(ProbeAppended /\ SnapshotCall(Last(results').test).exc = "") =>
          /\ Last(results').passed = SnapshotCall(Last(results').test).result.passed
          /\ Last(results').severity = SnapshotCall(Last(results').test).result.severity]_vars

\* C9: a run appends the results in catalogue order, one per probe, and reaches
\* generate_report only with all fifteen appended.
NamesOf(rs) == [i \in DOMAIN rs |-> rs[i].test]

C9_CatalogueOrder ==
    /\ Len(results) <= 15
    /\ NamesOf(results) = SubSeq(CatalogueNames, 1, Len(results))
    /\ pc \in {"generate_report", "save_detailed_report", "done"} => Len(results) = 15
    /\ console.printed => console.total_tests = 15
    /\ report.printed => report.total_tests = 15
    /\ pc \in Probes => pc = RunOrder[Len(results) + 1]

C9_Witness ==
    /\ pc = "done"
    /\ console.printed
    /\ NamesOf(results) = CatalogueNames
    /\ CountFailed(results) >= 3

\* C10: the recommendation depends on the score alone: "immediate action" exactly
\* when score < 70, "needs improvement" exactly when 70 <= score < 85, "excellent"
\* exactly when score >= 85 (the empty sequence scores 0).
ScoreBelow(passed, total, limit) == total = 0 \/ passed * 100 < limit * total

C10_TierByScore ==
    console.printed =>
        LET passed == console.passed_tests
            total == console.total_tests
        IN  /\ console.recommendation = "IMMEDIATE ACTION REQUIRED"
                <=> ScoreBelow(passed, total, 70)
            /\ console.recommendation = "GOOD STEALTH, NEEDS IMPROVEMENT"
                <=> (~ScoreBelow(passed, total, 70) /\ ScoreBelow(passed, total, 85))
            /\ console.recommendation = "EXCELLENT STEALTH COVERAGE"
                <=> ~ScoreBelow(passed, total, 85)

\* the boundary scores: exactly 70 and exactly 85, with critical failures
C10_Witness70 ==
    /\ console.printed
    /\ console.total_tests = 10
    /\ console.passed_tests = 7
    /\ Len(console.critical_fails) = 3
    /\ console.recommendation = "GOOD STEALTH, NEEDS IMPROVEMENT"

C10_Witness85 ==
    /\ console.printed
    /\ console.total_tests = 20
    /\ console.passed_tests = 17
    /\ console.recommendation = "EXCELLENT STEALTH COVERAGE"

(***************************************************************************)
(* C11: the windows find_target_windows returns.                           *)
(***************************************************************************)
WindowProbeRan == \E i \in DOMAIN results : results[i].test = "Win32 Window Enumeration"

\* t contains f when letter case is ignored
ContainsIgnoringCase(f, t) ==
    \E i \in 0..(Len(t) - Len(f)) : \A k \in 1..Len(f) : LowerChar(t[i + k]) = LowerChar(f[k])

\* a window that can be inspected and is visible
Inspectable(w) == w.enum_exc = "" /\ w.visible

HandlesAndTitles(ws) == [i \in DOMAIN ws |-> <<ws[i].hwnd, ws[i].title>>]

\* C11 as stated: the match returns exactly the visible windows for which the
\* title filter is empty or the title contains the filter, whatever their case
\* (so a window without title matches the empty filter); a window whose
\* inspection raises is skipped.
C11_WindowMatchAsStated ==
    WindowProbeRan =>
        target_windows =
            HandlesAndTitles(SelectSeq(platform.windows,
                LAMBDA w : Inspectable(w)
                           /\ (window_title = <<>> \/ ContainsIgnoringCase(window_title, w.title))))

\* C11 (amended): the match returns exactly the visible windows with a non-empty
\* title for which the title filter is empty or the title contains the filter,
\* whatever their case; a window without title never matches; a window whose
\* inspection raises is skipped; when nothing matches the sequence is empty and
\* the probe that called the match returns a passing result.
C11_WindowMatch ==
    WindowProbeRan =>
        LET expected ==
                HandlesAndTitles(SelectSeq(platform.windows,
                    LAMBDA w : Inspectable(w) /\ Len(w.title) > 0
                               /\ (window_title = <<>>
                                   \/ ContainsIgnoringCase(window_title, w.title))))
            verdict == results[CHOOSE i \in DOMAIN results :
                                  results[i].test = "Win32 Window Enumeration"]
        IN  /\ target_windows = expected
            /\ verdict.passed <=> expected = <<>>

\* an untitled window left out under the empty filter, beside one that matches
C11_Witness ==
    /\ WindowProbeRan
    /\ window_title = <<>>
    /\ Len(platform.windows) = 2
    /\ platform.windows[1].title = <<>> /\ Inspectable(platform.windows[1])
    /\ Len(target_windows) = 1

\* a filter in another letter case than the title it matches, and a window whose
\* inspection raises left out
C11_WitnessFilter ==
    /\ WindowProbeRan
    /\ window_title # <<>>
    /\ Len(platform.windows) = 2
    /\ platform.windows[1].enum_exc # ""
    /\ Len(target_windows) = 1
    /\ ~Contains(window_title, target_windows[1][2])

(***************************************************************************)
(* C12: the CPU probe's verdict and the average it reports.                *)
(***************************************************************************)
\* the matched processes sampled in round i, the sum of their percentages, and
\* the number of them (1 when there is none, to divide by)
SampledIn(i) == {k \in DOMAIN target_processes : target_processes[k].cpu[i].exc = ""}

RECURSIVE PctSum(_, _)
PctSum(i, ks) ==
    IF ks = {} THEN 0
    ELSE LET k == CHOOSE x \in ks : TRUE
         IN  Natural(target_processes[k].cpu[i].pct) + PctSum(i, ks \ {k})

RoundTotal(i) == PctSum(i, SampledIn(i))
RoundCount(i) == IF SampledIn(i) = {} THEN 1 ELSE Cardinality(SampledIn(i))
SampledRounds == {i \in 1..5 : SampledIn(i) # {}}

\* some round's sample, total / count, is above 50
SomeSampleAbove50 == \E i \in SampledRounds : RoundTotal(i) > 50 * Cardinality(SampledIn(i))

\* the sum of the samples as one fraction over the product of the rounds' counts
AllCounts == RoundCount(1) * RoundCount(2) * RoundCount(3) * RoundCount(4) * RoundCount(5)
SampleSumOverAllCounts ==
    RoundTotal(1) * (AllCounts \div RoundCount(1)) + RoundTotal(2) * (AllCounts \div RoundCount(2))
    + RoundTotal(3) * (AllCounts \div RoundCount(3)) + RoundTotal(4) * (AllCounts \div RoundCount(4))
    + RoundTotal(5) * (AllCounts \div RoundCount(5))

\* the tenths nearest to n / d: one number, or the two n / d lies midway between
NearestTenths(n, d) ==
    {t \in {(10 * n) \div d, ((10 * n) \div d) + 1} :
        2 * (10 * n - t * d) <= d /\ 2 * (t * d - 10 * n) <= d}

\* details shows, to one decimal, the sum of the collected samples divided by their number
ShowsExpectedAverage(details) ==
    \E t \in NearestTenths(SampleSumOverAllCounts, AllCounts * Cardinality(SampledRounds)) :
        Mentions(details,
                 Text("avg=") \o Decimal(t \div 10) \o Text(".") \o Decimal(t % 10) \o Text("%, max="))

CpuResultAppended == AppendsOne /\ Last(results').test = "CPU Usage"

\* C12: with at least one matched process the CPU probe samples in 5 rounds and
\* reports passed=false, severity medium, exactly when some collected sample is
\* above 50, otherwise passed=true, severity low; the average it reports (to one
\* decimal) is the sum of the collected samples divided by their number; a round
\* in which no process could be sampled gives no sample.
C12_CpuVerdict ==
    [][(CpuResultAppended /\ target_processes # <<>>) =>
         LET r == Last(results')
         IN  /\ r.passed <=> ~SomeSampleAbove50
             /\ r.severity = (IF SomeSampleAbove50 THEN "medium" ELSE "low")
             /\ SampledRounds # {} => ShowsExpectedAverage(r.details)
             /\ SampledRounds = {} => ~Mentions(r.details, Text("avg="))]_vars

\* the samples 10, 20, 30, 70, 15 of one process: failed, average 29.0
C12_Witness ==
    /\ Len(target_processes) = 1
    /\ [i \in 1..5 |-> Natural(target_processes[1].cpu[i].pct)] = <<10, 20, 30, 70, 15>>
    /\ \E i \in DOMAIN results :
          /\ results[i].test = "CPU Usage"
          /\ ~results[i].passed /\ results[i].severity = "medium"
          /\ Mentions(results[i].details, Text("avg=29.0%, max=70.0%"))

\* a largest sample of exactly 50 passes
C12_WitnessBoundary ==
    /\ Len(target_processes) = 1
    /\ [i \in 1..5 |-> Natural(target_processes[1].cpu[i].pct)] = <<50, 49, 50, 49, 50>>
    /\ \E i \in DOMAIN results :
          /\ results[i].test = "CPU Usage"
          /\ results[i].passed /\ results[i].severity = "low"
          /\ Mentions(results[i].details, Text("avg=49.6%, max=50.0%"))

\* rounds without a sample: three samples of 90 average 90.0
C12_WitnessSkippedRounds ==
    /\ Len(target_processes) = 1
    /\ Cardinality(SampledRounds) = 3
    /\ \E i \in DOMAIN results :
          /\ results[i].test = "CPU Usage"
          /\ Mentions(results[i].details, Text("avg=90.0%, max="))

\* three processes whose samples are 1, 1/3, 1 and 2/3: the floats add up to less than
\* 3, and their average, 0.75 in exact numbers, is shown as 0.7
C12_WitnessThirds ==
    /\ Len(target_processes) = 3
    /\ Cardinality(SampledRounds) = 4
    /\ \E i \in DOMAIN results :
          /\ results[i].test = "CPU Usage"
          /\ results[i].passed
          /\ Mentions(results[i].details, Text("avg=0.7%, max=1.0%"))

(***************************************************************************)
(* C13: the debugging probe detaches and closes what it attached and       *)
(* opened.                                                                 *)
(***************************************************************************)
DebugResultAppended == AppendsOne /\ Last(results').test = "Anti-Debugging Protection"

\* the matched processes the probe attached a debugger to
AttachSucceeded ==
    {k \in DOMAIN target_processes :
        LET p == target_processes[k]
        IN  p.dbg_open_exc = "" /\ p.dbg_handle # 0 /\ p.dbg_attach_exc = ""}

\* C13: when the debugging probe appends its result, no matched process is still
\* attached to the debugger and no handle the probe opened is left open; the
\* result is passed=false, severity critical, exactly when at least one attach
\* succeeded.
C13_DebugDetachesAndCloses ==
    [][DebugResultAppended =>
         /\ \A k \in DOMAIN target_processes : target_processes[k].pid \notin attached'
         /\ \A k \in DOMAIN target_processes :
               <<target_processes[k].pid, "ALL_ACCESS">> \notin handles'
         /\ LET r == Last(results')
            IN  /\ r.passed <=> AttachSucceeded = {}
                /\ ~r.passed => r.severity = "critical"]_vars

\* the verdict alone: failed, critical, exactly when at least one attach succeeded
C13_DebugVerdict ==
    [][(DebugResultAppended /\ target_processes # <<>>) =>
         LET r == Last(results')
         IN  /\ r.passed <=> AttachSucceeded = {}
             /\ r.severity = (IF AttachSucceeded = {} THEN "low" ELSE "critical")]_vars

\* a process attached and detached: the probe failed and left nothing behind
C13_WitnessDetached ==
    /\ \E i \in DOMAIN results :
          results[i].test = "Anti-Debugging Protection" /\ ~results[i].passed
    /\ attached = {} /\ handles = {}

(***************************************************************************)
(* C14: a matched process that has vanished or denies access is skipped.   *)
(***************************************************************************)
ProbeCall(method, tprocs) ==
    CASE method = "test_process_tree" -> process_tree_call(tprocs)
      [] method = "test_network_connections" -> network_call(tprocs)
      [] method = "test_memory_usage" -> memory_call(tprocs)
      [] method = "test_cpu_usage" -> cpu_call(tprocs)
      [] method = "test_process_injection_resistance" -> injection_call(tprocs)
      [] method = "test_debugging_protection" -> debugging_call(tprocs)
      [] method = "test_process_name_legitimacy" -> name_legitimacy_call(tprocs)

\* the process answers the probe's calls with NoSuchProcess or AccessDenied (for
\* the two probes that open the process: the open or the attach is refused)
Unavailable(method, p) ==
    CASE method = "test_process_tree" ->
            \/ p.parent_exc \in ProcessErrors
            \/ p.parent_exc = "" /\ ~p.parent_none /\ p.parent_name_exc \in ProcessErrors
            \/ p.parent_exc = "" /\ ~p.parent_none /\ p.parent_name_exc = ""
               /\ p.name_exc \in ProcessErrors
      [] method = "test_network_connections" -> p.conn_exc \in ProcessErrors
      [] method = "test_memory_usage" ->
            \/ p.mem_exc \in ProcessErrors
            \/ p.mem_exc = "" /\ p.name_exc \in ProcessErrors
      [] method = "test_cpu_usage" -> \A i \in 1..5 : p.cpu[i].exc \in ProcessErrors
      [] method = "test_process_injection_resistance" -> p.inj_open_exc # ""
      [] method = "test_debugging_protection" -> p.dbg_open_exc # "" \/ p.dbg_attach_exc # ""
      [] method = "test_process_name_legitimacy" -> p.name_exc \in ProcessErrors

Remaining(method) == SelectSeq(target_processes, LAMBDA p : ~Unavailable(method, p))

\* C14: in each of the seven process-dependent probes a matched process that
\* has vanished or denies access is skipped: its error never leaves the probe,
\* the verdict is the one the remaining matched processes alone give, and when
\* no process remains the probe appends passed=true.
C14_UnavailableProcessSkipped ==
    [][(pc \in ProcessProbes /\ target_processes # <<>>) =>
         /\ raised' \notin ProcessErrors
         /\ ~ProbeReturns => results' = results
         /\ (ProbeReturns /\ raised' = "") =>
               /\ AppendsOne
               /\ LET r == Last(results')
                      alone == ProbeCall(pc, Remaining(pc))
                  IN  /\ alone.exc = ""
                      /\ r.passed = alone.result.passed
                      /\ r.severity = alone.result.severity
                      /\ Remaining(pc) = <<>> => r.passed /\ r.severity = "low"]_vars

\* a vanished process beside one that is evaluated and makes the memory probe fail
C14_Witness ==
    /\ Len(target_processes) = 2
    /\ target_processes[1].mem_exc = "NoSuchProcess"
    /\ target_processes[2].mem_exc = ""
    /\ \E i \in DOMAIN results : results[i].test = "Memory Usage" /\ ~results[i].passed

\* every matched process has vanished: the seven probes all passed
C14_WitnessAllVanished ==
    /\ target_processes # <<>>
    /\ \A k \in DOMAIN target_processes :
          \A m \in ProcessProbes : Unavailable(m, target_processes[k])
    /\ Len(results) = 15
    /\ \A i \in {8, 9, 10, 11, 13, 14, 15} : results[i].passed

(***************************************************************************)
(* C15: the severities the probes give to failing and passing results.     *)
(***************************************************************************)
FailingOf(rs) == {i \in DOMAIN rs : ~rs[i].passed}

\* C15: in every state reached by running the probes, a failing result has
\* severity medium, high or critical, and a result of severity high or critical
\* is a failing one; so the persisted summary counts no low issue and the three
\* console buckets hold every failing result.
C15_FailureSeverities ==
    /\ \A i \in DOMAIN results :
          /\ ~results[i].passed => results[i].severity \in {"medium", "high", "critical"}
          /\ results[i].severity \in {"high", "critical"} => ~results[i].passed
    /\ report.printed =>
          /\ report.summary.low_issues = 0
          /\ report.summary.critical_issues + report.summary.high_issues
                 + report.summary.medium_issues = Cardinality(FailingOf(report.test_results))
    /\ console.printed =>
          Len(console.critical_fails) + Len(console.high_fails) + Len(console.medium_fails)
              = console.total_tests - console.passed_tests

\* a saved report with failures in each of the three buckets and a passing result
\* of severity medium
C15_Witness ==
    /\ report.printed /\ console.printed
    /\ report.summary.critical_issues > 0
    /\ report.summary.high_issues > 0
    /\ report.summary.medium_issues > 0
    /\ \E i \in DOMAIN results : results[i].passed /\ results[i].severity = "medium"

====
